---- MODULE Spec2Model ----
(***************************************************************************)
(* Model of the emissions calculation engine of digital_CO2_footprint:     *)
(* calculator.compute_total_kg_co2e and calculator.calculate_co2e_         *)
(* offsetting, applied to an Assumptions object (loader.Assumptions).      *)
(*                                                                         *)
(* Numbers.  The program computes on Python floats.  The model computes   *)
(* on exact rationals <<numerator, denominator>> in lowest terms, so the   *)
(* identities the engine satisfies "to floating-point tolerance" are       *)
(* checked as exact identities of the arithmetic the code writes down.     *)
(* A Python division by zero raises ZeroDivisionError; the model's         *)
(* division yields the value Err, which every later operation propagates,  *)
(* and a call whose result holds Err is a call that raised.                *)
(***************************************************************************)
EXTENDS Integers, FiniteSets, Sequences, TLC

VARIABLES assumptions, call, scan, load, sessions

vars == <<assumptions, call, scan, load, sessions>>

(***************************************************************************)
(* Exact rational arithmetic standing for Python float arithmetic.         *)
(***************************************************************************)
RECURSIVE GCD(_, _)
GCD(a, b) ==
  IF b = 0 THEN a ELSE GCD(b, a % b)

Abs(n) ==
  IF n < 0 THEN -n ELSE n

Err ==
  <<0, 0>>

IsErr(x) ==
  x[2] = 0

Norm(n, d) ==
  LET g == GCD(Abs(n), Abs(d))
      s == IF d < 0 THEN -1 ELSE 1
  IN  <<(s * n) \div g, (s * d) \div g>>

R(n) ==
  <<n, 1>>

Q(n, d) ==
  Norm(n, d)

Zero ==
  R(0)

One ==
  R(1)

RAdd(x, y) ==
  IF IsErr(x) \/ IsErr(y) THEN Err
  ELSE LET g == GCD(x[2], y[2])
       IN  Norm(x[1] * (y[2] \div g) + y[1] * (x[2] \div g), x[2] * (y[2] \div g))

RNeg(x) ==
  IF IsErr(x) THEN Err ELSE <<-x[1], x[2]>>

RSub(x, y) ==
  RAdd(x, RNeg(y))

RMul(x, y) ==
  IF IsErr(x) \/ IsErr(y) THEN Err
  ELSE LET g1 == GCD(Abs(x[1]), y[2])
           g2 == GCD(Abs(y[1]), x[2])
       IN  IF x[1] = 0 \/ y[1] = 0 THEN Zero
           ELSE <<(x[1] \div g1) * (y[1] \div g2), (x[2] \div g2) * (y[2] \div g1)>>

\* Python's x / y: ZeroDivisionError when y is 0.
RDiv(x, y) ==
  IF IsErr(x) \/ IsErr(y) THEN Err
  ELSE IF y[1] = 0 THEN Err
  ELSE RMul(x, Norm(y[2], y[1]))

RLt(x, y) ==
  x[1] * y[2] < y[1] * x[2]

RLe(x, y) ==
  x[1] * y[2] <= y[1] * x[2]

RGt(x, y) ==
  RLt(y, x)

RMax(x, y) ==
  IF IsErr(x) \/ IsErr(y) THEN Err ELSE IF RLt(x, y) THEN y ELSE x

RMin(x, y) ==
  IF IsErr(x) \/ IsErr(y) THEN Err ELSE IF RLt(y, x) THEN y ELSE x

\* Python's sum(...) over the values f[k], k in S.
RECURSIVE RSum(_, _)
RSum(f, S) ==
  IF S = {} THEN Zero
  ELSE LET k == CHOOSE e \in S : TRUE
       IN  RAdd(f[k], RSum(f, S \ {k}))

(***************************************************************************)
(* Key sets of the configuration (assumptions.yaml) and the input values   *)
(* the model draws the Assumptions from.                                   *)
(***************************************************************************)
Devices ==
  {"computer", "smartphone", "tablet", "tv"}

Networks ==
  {"fixed", "mobile"}

Resolutions ==
  {"480p", "1080p", "2160p"}

OffsettingActions ==
  {"electric_vs_thermic_vehicle", "no_meat_meal_vs_chicken_meal"}

\* hours_input is a non-negative integer of unbounded size (app.py:417);
\* the model draws it from 0..MaxHours.
MaxHours ==
  2

HoursInputs ==
  {R(h) : h \in 0..MaxHours}

\* Percent groups whose sums are 0, 50, 100, 150 and 200.
DevicePercentInputs ==
  [Devices -> {R(0), R(50)}]

\* Per-device fixed-network percents: all on the fixed network, and a mix
\* with entries below 0 and above 100.
FixedNetworkPercentInputs ==
  { [d \in Devices |-> R(100)],
    ("computer" :> R(100) @@ "smartphone" :> R(-50) @@ "tablet" :> R(50) @@ "tv" :> R(150)) }

\* Resolution mixes: all zero, a mix summing to 60 and a mix summing to 140.
ResolutionPercentInputs ==
  { [r \in Resolutions |-> R(0)],
    ("480p" :> R(20) @@ "1080p" :> R(30) @@ "2160p" :> R(10)),
    ("480p" :> R(70) @@ "1080p" :> R(0) @@ "2160p" :> R(70)) }

\* Lifetimes: all at least one hour, and a map with lifetimes 0 and 1/2.
LifetimeInputs ==
  { ("computer" :> R(100) @@ "smartphone" :> R(20) @@ "tablet" :> R(50) @@ "tv" :> R(200)),
    ("computer" :> R(0) @@ "smartphone" :> Q(1, 2) @@ "tablet" :> R(1) @@ "tv" :> R(200)) }

DefaultOffsetting ==
  ("electric_vs_thermic_vehicle" :> Q(1, 2) @@ "no_meat_meal_vs_chicken_meal" :> R(0))

OffsettingInputs ==
  [OffsettingActions -> {R(-1), R(0), Q(1, 2), R(2)}]

TotalInputs ==
  {R(-52), R(0), Q(13, 2), R(26), R(52), R(104)}

\* Role arguments: the two roles of the app, an unrecognised role with an
\* upper-case letter, and the empty string (falsy in Python).
RoleInputs ==
  {"producer", "consumer", "Viewer", ""}

MakeAssumptions(dp, fnp, frp, mrp, life, off, hours) ==
  [ device_percent |-> dp,
    fixed_network_percent |-> fnp,
    fixed_network_resolution_percent |-> frp,
    mobile_network_resolution_percent |-> mrp,
    device_production_kg_co2e |->
      ("computer" :> R(300) @@ "smartphone" :> R(60) @@ "tablet" :> R(100) @@ "tv" :> R(400)),
    device_lifetime_hours |-> life,
    device_watts |->
      ("computer" :> R(500) @@ "smartphone" :> R(250) @@ "tablet" :> R(1000) @@ "tv" :> R(2000)),
    co2e_per_kWh |-> Q(1, 2),
    network_kwh_per_gb |-> ("fixed" :> Q(1, 2) @@ "mobile" :> R(2)),
    network_kwh_per_user_per_hour |-> ("fixed" :> R(1) @@ "mobile" :> R(3)),
    datacenter_kg_co2e |-> ("per_GB" :> Q(1, 4) @@ "per_hour" :> Q(1, 2)),
    video_bitrate_GB_per_hour |-> ("480p" :> R(1) @@ "1080p" :> R(2) @@ "2160p" :> R(8)),
    co2e_offsetting |-> off,
    hours_input |-> hours ]

\* The fields of the Assumptions whose value is a mapping (a dict after
\* loader.load_from_yaml); the other fields are scalars.
MappingFields ==
  { "device_percent", "fixed_network_percent", "fixed_network_resolution_percent",
    "mobile_network_resolution_percent", "device_production_kg_co2e",
    "device_lifetime_hours", "device_watts", "network_kwh_per_gb",
    "network_kwh_per_user_per_hour", "datacenter_kg_co2e",
    "video_bitrate_GB_per_hour", "co2e_offsetting" }

\* Assumptions with every number positive.
PositiveAssumptions ==
  MakeAssumptions(
    ("computer" :> R(50) @@ "smartphone" :> R(25) @@ "tablet" :> R(25) @@ "tv" :> R(100)),
    ("computer" :> R(100) @@ "smartphone" :> R(25) @@ "tablet" :> R(50) @@ "tv" :> R(100)),
    ("480p" :> R(20) @@ "1080p" :> R(30) @@ "2160p" :> R(10)),
    ("480p" :> R(50) @@ "1080p" :> R(25) @@ "2160p" :> R(25)),
    ("computer" :> Q(1, 4) @@ "smartphone" :> Q(1, 2) @@ "tablet" :> R(1) @@ "tv" :> R(200)),
    ("electric_vs_thermic_vehicle" :> Q(1, 2) @@ "no_meat_meal_vs_chicken_meal" :> R(2)),
    One)

\* The fields compute_total_kg_co2e reads, hours_input aside.
ZeroableFields ==
  (DOMAIN PositiveAssumptions) \ {"hours_input", "co2e_offsetting"}

\* The field with every number replaced by 0.
ZeroValue(a, field) ==
  IF field \in MappingFields THEN [k \in DOMAIN a[field] |-> Zero] ELSE Zero

\* Non-negative Assumptions: any set of fields at 0, the others positive.
ZeroInputs ==
  { [field \in DOMAIN PositiveAssumptions |->
       IF field \in zeroed THEN ZeroValue(PositiveAssumptions, field)
       ELSE IF field = "hours_input" THEN hours
       ELSE PositiveAssumptions[field]] :
    zeroed \in SUBSET ZeroableFields, hours \in HoursInputs }

(***************************************************************************)
(* calculator.compute_total_kg_co2e                                        *)
(***************************************************************************)
\* dict.get(key, default)
Get(dict, key, default) ==
  IF key \in DOMAIN dict THEN dict[key] ELSE default

\* str.lower() on the role arguments of the model.
lower(s) ==
  CASE s = "Viewer" -> "viewer"
    [] OTHER -> s

\* Mutant: the role lower-cased without the default for a falsy role.
role_label_no_default(role) ==
  lower(role)

\* role = (role or "producer").lower()
role_label(role) ==
  lower(IF role = "" THEN "producer" ELSE role)

\* Mutant: the fixed-network renormalisation without its zero-sum check.
fixed_resolution_share_unguarded(a) ==
  LET percent == a.fixed_network_resolution_percent
      share == [k \in DOMAIN percent |-> RDiv(percent[k], R(100))]
      fixed_resolution_total == RSum(share, DOMAIN share)
  IN  [k \in DOMAIN share |-> RDiv(share[k], fixed_resolution_total)]

fixed_resolution_share(a) ==
  LET percent == a.fixed_network_resolution_percent
      share == [k \in DOMAIN percent |-> RDiv(percent[k], R(100))]
      fixed_resolution_total == RSum(share, DOMAIN share)
  IN  IF RGt(fixed_resolution_total, Zero)
      THEN [k \in DOMAIN share |-> RDiv(share[k], fixed_resolution_total)]
      ELSE share

mobile_resolution_share(a) ==
  LET percent == a.mobile_network_resolution_percent
      share == [k \in DOMAIN percent |-> RDiv(percent[k], R(100))]
      mobile_resolution_total == RSum(share, DOMAIN share)
  IN  IF RGt(mobile_resolution_total, Zero)
      THEN [k \in DOMAIN share |-> RDiv(share[k], mobile_resolution_total)]
      ELSE share

\* sum(share[key] * bitrate[key] for key in bitrate), lines 62-69.
gb_per_hour(a, share) ==
  LET bitrate == a.video_bitrate_GB_per_hour
  IN  RSum([key \in DOMAIN bitrate |-> RMul(share[key], bitrate[key])], DOMAIN bitrate)

\* Mutant: the percents divided by 100 and never renormalised.
device_usage_share_fraction_raw(a) ==
  [key \in DOMAIN a.device_percent |-> RDiv(a.device_percent[key], R(100))]

\* Mutant: the renormalisation without its zero-sum check.
device_usage_share_fraction_unguarded(a) ==
  LET share == [key \in DOMAIN a.device_percent |-> RDiv(a.device_percent[key], R(100))]
      device_share_total == RSum(share, DOMAIN share)
  IN  [key \in DOMAIN share |-> RDiv(share[key], device_share_total)]

device_usage_share_fraction(a) ==
  LET share == [key \in DOMAIN a.device_percent |-> RDiv(a.device_percent[key], R(100))]
      device_share_total == RSum(share, DOMAIN share)
  IN  IF RGt(device_share_total, Zero)
      THEN [key \in DOMAIN share |-> RDiv(share[key], device_share_total)]
      ELSE [key \in DOMAIN share |-> Zero]

\* Mutant: the per-device fixed fraction without its clamp to [0, 1].
fixed_share_by_device_unclamped(a) ==
  [k \in DOMAIN a.fixed_network_percent |-> RDiv(a.fixed_network_percent[k], R(100))]

fixed_share_by_device(a) ==
  [k \in DOMAIN a.fixed_network_percent |->
     RMin(One, RMax(Zero, RDiv(a.fixed_network_percent[k], R(100))))]

\* Mutant: the mobile share summed over the devices like the fixed share.
network_share_mobile_by_device(a, fraction) ==
  [ fixed |->
      RSum([d \in DOMAIN fraction |->
              RMul(fraction[d], Get(fixed_share_by_device(a), d, Zero))], DOMAIN fraction),
    mobile |->
      RSum([d \in DOMAIN fraction |->
              RMul(fraction[d], RSub(One, Get(fixed_share_by_device(a), d, Zero)))],
           DOMAIN fraction) ]

\* total_share_fixed and total_share_mobile after lines 96-105, given the
\* device usage fractions.
network_share(a, fraction) ==
  LET byDevice == fixed_share_by_device(a)
      raw == RSum([d \in DOMAIN fraction |-> RMul(fraction[d], Get(byDevice, d, Zero))],
                  DOMAIN fraction)
      total_share_fixed == RMin(One, RMax(Zero, raw))
      total_share_mobile == RMax(Zero, RSub(One, total_share_fixed))
      share_total == RAdd(total_share_fixed, total_share_mobile)
  IN  IF RGt(share_total, Zero)
      THEN [fixed |-> RDiv(total_share_fixed, share_total),
            mobile |-> RDiv(total_share_mobile, share_total)]
      ELSE [fixed |-> total_share_fixed, mobile |-> total_share_mobile]

\* Mutant: the lifetime without its floor of one hour.
lifetime_hours_unfloored(a, device) ==
  Get(a.device_lifetime_hours, device, One)

lifetime_hours(a, device) ==
  RMax(One, Get(a.device_lifetime_hours, device, One))

\* Mutant: no production for a device whose lifetime is below one hour.
device_production_co2_per_video_hour_by_device_whole_hours(a, fraction) ==
  [device \in DOMAIN fraction |->
     LET production_kg == Get(a.device_production_kg_co2e, device, Zero)
         lifetime == Get(a.device_lifetime_hours, device, One)
     IN  IF RLt(lifetime, One) THEN Zero
         ELSE RMul(fraction[device], RDiv(production_kg, lifetime))]

device_production_co2_per_video_hour_by_device(a, fraction) ==
  [device \in DOMAIN fraction |->
     LET production_kg == Get(a.device_production_kg_co2e, device, Zero)
         production_per_device_hour == RDiv(production_kg, lifetime_hours(a, device))
     IN  RMul(fraction[device], production_per_device_hour)]

device_energy_kwh_per_video_hour_by_device(a, fraction) ==
  [device \in DOMAIN fraction |->
     RMul(fraction[device], RDiv(Get(a.device_watts, device, Zero), R(1000)))]

device_energy_co2_per_video_hour_by_device(a, kwh) ==
  [device \in DOMAIN kwh |-> RMul(kwh[device], a.co2e_per_kWh)]

\* Mutant: the per-user-hour overhead charged in full, whatever the share.
network_kwh_per_video_hour_flat_overhead(a, gb_per_hour_by_network, share) ==
  [network \in DOMAIN a.network_kwh_per_gb |->
     RAdd(RMul(RMul(a.network_kwh_per_gb[network], gb_per_hour_by_network[network]),
               share[network]),
          a.network_kwh_per_user_per_hour[network])]

network_kwh_per_video_hour_weighted(a, gb_per_hour_by_network, share) ==
  [network \in DOMAIN a.network_kwh_per_gb |->
     LET coefficient_a == a.network_kwh_per_gb[network]
         coefficient_b_hour == a.network_kwh_per_user_per_hour[network]
         raw_kwh_with_b ==
           RAdd(RMul(coefficient_a, gb_per_hour_by_network[network]), coefficient_b_hour)
     IN  RMul(raw_kwh_with_b, share[network])]

network_co2_per_video_hour_weighted(a, kwh) ==
  [network \in DOMAIN kwh |-> RMul(kwh[network], a.co2e_per_kWh)]

WeeksPerYear ==
  52

\* Mutant: twelve months instead of 52 weeks.
hours_per_year_monthly(a) ==
  RMul(a.hours_input, R(12))

\* Mutant: the weeks of a year, whatever hours_input is.
hours_per_year_constant(a) ==
  R(WeeksPerYear)

hours_per_year(a) ==
  RMul(a.hours_input, R(WeeksPerYear))

\* The local variables of compute_total_kg_co2e, in the order of the function
\* body.  Each group of lines reads the locals L set by the lines before it.
\* Lines 41-60, 75-85 and 221.
locals_shares(a) ==
  [ fixed_resolution_share |-> fixed_resolution_share(a),
    mobile_resolution_share |-> mobile_resolution_share(a),
    device_usage_share_fraction |-> device_usage_share_fraction(a),
    hours_per_year |-> hours_per_year(a) ]

\* Lines 62-69, 90-105, 110-121 and 130-135.
locals_per_device(a, L) ==
  L @@
  [ gb_per_hour_fixed |-> gb_per_hour(a, L.fixed_resolution_share),
    gb_per_hour_mobile |-> gb_per_hour(a, L.mobile_resolution_share),
    network_share |-> network_share(a, L.device_usage_share_fraction),
    device_production_co2_per_video_hour_by_device |->
      device_production_co2_per_video_hour_by_device(a, L.device_usage_share_fraction),
    device_energy_kwh_per_video_hour_by_device |->
      device_energy_kwh_per_video_hour_by_device(a, L.device_usage_share_fraction) ]

\* Lines 122-124, 136-138, 164-178 and 200-202.
locals_per_network(a, L) ==
  L @@
  [ device_production_co2_per_video_hour_total |->
      RSum(L.device_production_co2_per_video_hour_by_device,
           DOMAIN L.device_production_co2_per_video_hour_by_device),
    device_energy_co2_per_video_hour_by_device |->
      device_energy_co2_per_video_hour_by_device(a, L.device_energy_kwh_per_video_hour_by_device),
    gb_per_hour_by_network |->
      [fixed |-> L.gb_per_hour_fixed, mobile |-> L.gb_per_hour_mobile],
    network_kwh_per_video_hour_weighted |->
      network_kwh_per_video_hour_weighted(
        a, [fixed |-> L.gb_per_hour_fixed, mobile |-> L.gb_per_hour_mobile], L.network_share),
    gb_per_hour_total_weighted |->
      RAdd(RMul(L.network_share.fixed, L.gb_per_hour_fixed),
           RMul(L.network_share.mobile, L.gb_per_hour_mobile)) ]

\* Lines 146-148, 179-181 and 204-205.
locals_co2(a, L) ==
  L @@
  [ device_energy_co2_per_video_hour_total |->
      RSum(L.device_energy_co2_per_video_hour_by_device,
           DOMAIN L.device_energy_co2_per_video_hour_by_device),
    network_co2_per_video_hour_weighted |->
      network_co2_per_video_hour_weighted(a, L.network_kwh_per_video_hour_weighted),
    datacenter_co2_transfer |->
      RMul(a.datacenter_kg_co2e["per_GB"], L.gb_per_hour_total_weighted),
    datacenter_co2_runtime |-> a.datacenter_kg_co2e["per_hour"] ]

\* Lines 206-208 and 228.
locals_totals(a, L) ==
  L @@
  [ datacenter_co2_per_video_hour_total |->
      RAdd(L.datacenter_co2_transfer, L.datacenter_co2_runtime),
    network_co2_per_video_hour_total |->
      RSum(L.network_co2_per_video_hour_weighted,
           DOMAIN L.network_co2_per_video_hour_weighted) ]

\* Lines 234-238.
locals_usage_only(a, L) ==
  L @@
  [ kilograms_co2e_per_video_hour_usage_only |->
      RAdd(RAdd(L.device_energy_co2_per_video_hour_total,
                L.network_co2_per_video_hour_total),
           L.datacenter_co2_per_video_hour_total) ]

\* Mutant: the with-production rate without the production term.
locals_with_production_dropped(a, L) ==
  L @@
  [ kilograms_co2e_per_video_hour_with_production |->
      L.kilograms_co2e_per_video_hour_usage_only ]

\* Lines 239-242.
locals_with_production(a, L) ==
  L @@
  [ kilograms_co2e_per_video_hour_with_production |->
      RAdd(L.device_production_co2_per_video_hour_total,
           L.kilograms_co2e_per_video_hour_usage_only) ]

compute_locals(a) ==
  locals_with_production(a,
    locals_usage_only(a,
      locals_totals(a,
        locals_co2(a,
          locals_per_network(a,
            locals_per_device(a,
              locals_shares(a)))))))

\* The entries compute_total_kg_co2e stores under a per-key name
\* (f"{prefix}{key}" for key in the mapping).
Keyed(prefix, values) ==
  LET name(k) == prefix \o k
  IN  [n \in {name(k) : k \in DOMAIN values} |->
         values[CHOOSE k \in DOMAIN values : name(k) = n]]

\* The entries of intermediate_values other than "role", from the locals L.
intermediate_numbers(a, L) ==
  ( "gb_per_hour_fixed" :> L.gb_per_hour_fixed
 @@ "gb_per_hour_mobile" :> L.gb_per_hour_mobile
 @@ "network_share_fixed" :> RMul(L.network_share.fixed, R(100))
 @@ "network_share_mobile" :> RMul(L.network_share.mobile, R(100))
 @@ Keyed("device_production_co2_per_video_hour_by_device_",
          L.device_production_co2_per_video_hour_by_device)
 @@ "device_production_co2_per_video_hour_total" :>
      L.device_production_co2_per_video_hour_total
 @@ Keyed("device_energy_kwh_per_video_hour_by_device_",
          L.device_energy_kwh_per_video_hour_by_device)
 @@ Keyed("device_energy_co2_per_video_hour_by_device_",
          L.device_energy_co2_per_video_hour_by_device)
 @@ "device_energy_kwh_per_video_hour_total" :>
      RSum(L.device_energy_kwh_per_video_hour_by_device,
           DOMAIN L.device_energy_kwh_per_video_hour_by_device)
 @@ "device_energy_co2_per_video_hour_total" :> L.device_energy_co2_per_video_hour_total
 @@ "device_production_co2_per_video_hour_total_plus_energy" :>
      RAdd(L.device_production_co2_per_video_hour_total,
           L.device_energy_co2_per_video_hour_total)
 @@ Keyed("network_a_kwh_per_gb_", a.network_kwh_per_gb)
 @@ Keyed("network_b_kwh_per_user_hour_",
          [n \in DOMAIN a.network_kwh_per_gb |-> a.network_kwh_per_user_per_hour[n]])
 @@ Keyed("network_gb_per_hour_",
          [n \in DOMAIN a.network_kwh_per_gb |-> L.gb_per_hour_by_network[n]])
 @@ Keyed("network_kwh_per_video_hour_", L.network_kwh_per_video_hour_weighted)
 @@ Keyed("network_co2_per_video_hour_", L.network_co2_per_video_hour_weighted)
 @@ "gb_per_hour_total_weighted" :> L.gb_per_hour_total_weighted
 @@ "datacenter_co2_per_video_hour_transfer" :> L.datacenter_co2_transfer
 @@ "datacenter_co2_per_video_hour_runtime" :> L.datacenter_co2_runtime
 @@ "datacenter_co2_per_video_hour_total" :> L.datacenter_co2_per_video_hour_total
 @@ "hours_input" :> a.hours_input
 @@ "hours_input_year" :> L.hours_per_year
 @@ "network_kwh_per_video_hour_total" :>
      RSum(L.network_kwh_per_video_hour_weighted,
           DOMAIN L.network_kwh_per_video_hour_weighted)
 @@ "network_co2_per_video_hour_total" :> L.network_co2_per_video_hour_total
 @@ "kg_per_video_hour_total" :> L.kilograms_co2e_per_video_hour_with_production
 @@ "kg_per_video_hour_usage_only" :> L.kilograms_co2e_per_video_hour_usage_only
 @@ "total_kg_co2e" :>
      RMul(L.kilograms_co2e_per_video_hour_with_production, L.hours_per_year)
 @@ "total_kg_co2e_usage_only" :>
      RMul(L.kilograms_co2e_per_video_hour_usage_only, L.hours_per_year)
 @@ "production_co2_total" :>
      RMul(L.device_production_co2_per_video_hour_total, L.hours_per_year)
 @@ "device_energy_co2_total" :>
      RMul(L.device_energy_co2_per_video_hour_total, L.hours_per_year)
 @@ "network_co2_total" :> RMul(L.network_co2_per_video_hour_total, L.hours_per_year)
 @@ "datacenter_co2_total" :>
      RMul(L.datacenter_co2_per_video_hour_total, L.hours_per_year) )

\* What a call returns: the tuple (usage_only, with_production,
\* intermediate_values), or nothing when an exception was raised.
Raised ==
  [raised |-> TRUE]

\* Lines 272-276: the returned tuple, unless a division raised on the way.
compute_return(role, L, numbers) ==
  IF \E k \in DOMAIN numbers : IsErr(numbers[k])
  THEN [ret |-> Raised, locals |-> L]
  ELSE [ ret |-> [ raised |-> FALSE,
                   usage_only |-> numbers["total_kg_co2e_usage_only"],
                   with_production |-> numbers["total_kg_co2e"],
                   intermediate_values |-> ("role" :> role_label(role)) @@ numbers ],
         locals |-> L ]

compute_with_locals(a, role, L) ==
  compute_return(role, L, intermediate_numbers(a, L))

\* Mutant: the producer's hours taken as hours per year, the consumer's as
\* hours per week.
compute_total_kg_co2e_by_role(a, role) ==
  IF role_label(role) = "producer"
  THEN compute_with_locals(a, role,
         compute_locals([a EXCEPT !.hours_input = RDiv(@, R(WeeksPerYear))]))
  ELSE compute_with_locals(a, role, compute_locals(a))

\* The call, with the local variables it ended with.
compute_total_kg_co2e(a, role) ==
  compute_with_locals(a, role, compute_locals(a))

\* Mutant: the device percents renormalised in place.
assumptions_after_compute_in_place(a, role) ==
  [a EXCEPT !.device_percent = device_usage_share_fraction(a)]

\* The Assumptions object after the call: every assignment of the function
\* targets a local name or a dict built by the function itself.
assumptions_after_compute(a, role) ==
  a

(***************************************************************************)
(* calculator.calculate_co2e_offsetting                                    *)
(***************************************************************************)
\* Mutant: the guard "saving >= 0" instead of "saving > 0".
calculate_co2e_offsetting_nonnegative(total_kg_co2e, co2e_offsetting) ==
  LET offsetting ==
        [action \in {k \in DOMAIN co2e_offsetting : RLe(Zero, co2e_offsetting[k])} |->
           RDiv(total_kg_co2e, co2e_offsetting[action])]
  IN  IF \E k \in DOMAIN offsetting : IsErr(offsetting[k])
      THEN Raised
      ELSE [raised |-> FALSE, offsetting |-> offsetting]

calculate_co2e_offsetting(total_kg_co2e, co2e_offsetting) ==
  LET offsetting ==
        [action \in {k \in DOMAIN co2e_offsetting : RGt(co2e_offsetting[k], Zero)} |->
           RDiv(total_kg_co2e, co2e_offsetting[action])]
  IN  IF \E k \in DOMAIN offsetting : IsErr(offsetting[k])
      THEN Raised
      ELSE [raised |-> FALSE, offsetting |-> offsetting]

\* The offsetting table after the call: the function only reads it.
table_after_offsetting(total_kg_co2e, co2e_offsetting) ==
  co2e_offsetting

(***************************************************************************)
(* loader._compute_decimals_map_from_yaml and Assumptions.get_decimals     *)
(*                                                                         *)
(* A line of the raw text is a sequence of tokens.  A token is one         *)
(* character (a space, ":", "#", "-", "+", "." or a digit) or a word: a    *)
(* run of other characters, such as a key.                                 *)
(***************************************************************************)
DigitTokens ==
  {"0", "1", "2", "3", "4", "5", "6", "7", "8", "9"}

Whitespace ==
  {" "}

\* Python's None as the sub-key of a top-level scalar.
None ==
  "None"

\* The index of the first token tok of seq, 0 when seq has none.
find(seq, tok) ==
  IF \E i \in 1..Len(seq) : seq[i] = tok
  THEN CHOOSE i \in 1..Len(seq) : seq[i] = tok /\ \A j \in 1..(i - 1) : seq[j] # tok
  ELSE 0

RECURSIVE rstrip(_)
rstrip(seq) ==
  IF seq # <<>> /\ seq[Len(seq)] \in Whitespace
  THEN rstrip(SubSeq(seq, 1, Len(seq) - 1))
  ELSE seq

RECURSIVE lstrip(_)
lstrip(seq) ==
  IF seq # <<>> /\ Head(seq) \in Whitespace THEN lstrip(Tail(seq)) ELSE seq

strip(seq) ==
  lstrip(rstrip(seq))

\* The string a sequence of tokens spells.
RECURSIVE text_of(_)
text_of(seq) ==
  IF seq = <<>> THEN "" ELSE Head(seq) \o text_of(Tail(seq))

\* re.match(r"^-?\d+(?:\.(\d+))?$", value): whether it matches, and group 1.
re_match(value) ==
  LET unsigned == IF value # <<>> /\ Head(value) = "-" THEN Tail(value) ELSE value
      point == find(unsigned, ".")
      whole == IF point = 0 THEN unsigned ELSE SubSeq(unsigned, 1, point - 1)
      group1 == IF point = 0 THEN <<>> ELSE SubSeq(unsigned, point + 1, Len(unsigned))
      AllDigits(digits) ==
        digits # <<>> /\ \A i \in 1..Len(digits) : digits[i] \in DigitTokens
  IN  [ matched |-> AllDigits(whole) /\ (point = 0 \/ AllDigits(group1)),
        group1 |-> group1 ]

\* Mutant: an entry at the indentation of the line left on the stack.
RECURSIVE pop_stack_deeper_only(_, _)
pop_stack_deeper_only(stack, indent) ==
  IF stack # <<>> /\ stack[Len(stack)].indent > indent
  THEN pop_stack_deeper_only(SubSeq(stack, 1, Len(stack) - 1), indent)
  ELSE stack

\* while stack and stack[-1][0] >= indent: stack.pop()
RECURSIVE pop_stack(_, _)
pop_stack(stack, indent) ==
  IF stack # <<>> /\ stack[Len(stack)].indent >= indent
  THEN pop_stack(SubSeq(stack, 1, Len(stack) - 1), indent)
  ELSE stack

\* The key a line did not write the precision map under.
NoPath ==
  <<>>

\* Mutant: a nested scalar recorded under the innermost open mapping.
path_of_innermost(parents, key) ==
  IF parents # <<>> THEN <<parents[Len(parents)], key>> ELSE <<key, None>>

\* Lines 98-104: the key of decimals_map a numeric scalar is recorded under.
path_of(parents, key) ==
  IF parents # <<>> THEN <<parents[1], key>> ELSE <<key, None>>

\* Mutant: the digits of the fraction without its trailing zeros.
RECURSIVE decimals_of_stripped(_)
decimals_of_stripped(group1) ==
  IF group1 # <<>> /\ group1[Len(group1)] = "0"
  THEN decimals_of_stripped(SubSeq(group1, 1, Len(group1) - 1))
  ELSE Len(group1)

\* decimals = len(m.group(1)) if m.group(1) else 0
decimals_of(group1) ==
  Len(group1)

\* One iteration of the loop over the lines (lines 71-104), from the stack
\* and the map the iterations before it left.
scan_line(stack, decimals_map, line) ==
  LET hash == find(line, "#")
      no_comment == rstrip(IF hash = 0 THEN line ELSE SubSeq(line, 1, hash - 1))
      content == lstrip(no_comment)
      indent == Len(no_comment) - Len(content)
      colon == find(content, ":")
      key == text_of(strip(SubSeq(content, 1, colon - 1)))
      value == strip(SubSeq(content, colon + 1, Len(content)))
      popped == pop_stack(stack, indent)
      m == re_match(value)
      parents == [i \in 1..Len(popped) |-> popped[i].key]
      path == path_of(parents, key)
  IN  IF strip(no_comment) = <<>> \/ colon = 0
      THEN [stack |-> stack, decimals_map |-> decimals_map, written |-> NoPath]
      ELSE IF value = <<>>
      THEN [ stack |-> Append(popped, [indent |-> indent, key |-> key]),
             decimals_map |-> decimals_map, written |-> NoPath ]
      ELSE IF m.matched
      THEN [ stack |-> popped,
             decimals_map |-> (path :> decimals_of(m.group1)) @@ decimals_map,
             written |-> path ]
      ELSE [stack |-> popped, decimals_map |-> decimals_map, written |-> NoPath]

\* decimals_map = {} (line 67)
EmptyDecimalsMap ==
  [path \in {} |-> 0]

\* The loop over the lines: its state before the first line (lines 67-68),
\* after one more line, and the map returned after the last (line 106).
scan_start ==
  [pos |-> 0, stack |-> <<>>, decimals_map |-> EmptyDecimalsMap, written |-> NoPath]

scan_step(state, lines) ==
  LET after == scan_line(state.stack, state.decimals_map, lines[state.pos + 1])
  IN  [ pos |-> state.pos + 1, stack |-> after.stack,
        decimals_map |-> after.decimals_map, written |-> after.written ]

RECURSIVE scan_lines(_, _)
scan_lines(state, lines) ==
  IF state.pos >= Len(lines) THEN state.decimals_map
  ELSE scan_lines(scan_step(state, lines), lines)

compute_decimals_map_from_yaml(raw_text) ==
  scan_lines(scan_start, raw_text)

\* The default of get_decimals (line 46).
DefaultDecimals ==
  2

\* Mutant: no fallback to the top-level entry of the variable.
get_decimals_exact(decimals_map, variable, subkey) ==
  IF <<variable, subkey>> \in DOMAIN decimals_map
  THEN decimals_map[<<variable, subkey>>]
  ELSE DefaultDecimals

\* self._decimals_map.get((variable, subkey),
\*                        self._decimals_map.get((variable, None), 2))
get_decimals(decimals_map, variable, subkey) ==
  Get(decimals_map, <<variable, subkey>>,
      Get(decimals_map, <<variable, None>>, DefaultDecimals))

(***************************************************************************)
(* The engine applied once to Assumptions drawn from the input sets.       *)
(***************************************************************************)
NoCall ==
  [fn |-> "none"]

\* No text is being scanned, no load was asked for, no page is open.
NoScan ==
  [pos |-> -1]

NoLoad ==
  [pc |-> "none"]

NoSessions ==
  [s \in {} |-> NoCall]

ComputeInputs ==
  { MakeAssumptions(dp, fnp, frp, mrp, life, DefaultOffsetting, hours) :
      dp \in DevicePercentInputs, fnp \in FixedNetworkPercentInputs,
      frp \in ResolutionPercentInputs, mrp \in ResolutionPercentInputs,
      life \in LifetimeInputs, hours \in HoursInputs }

Init ==
  /\ assumptions \in ComputeInputs
  /\ call = NoCall
  /\ scan = NoScan
  /\ load = NoLoad
  /\ sessions = NoSessions

\* The record of a call of compute_total_kg_co2e: its role argument, what
\* it returned and the share fractions it derived on the way.
ComputeCall(role, c) ==
  [ fn |-> "compute_total_kg_co2e",
    role |-> role,
    ret |-> c.ret,
    device_usage_share_fraction |-> c.locals.device_usage_share_fraction,
    fixed_resolution_share |-> c.locals.fixed_resolution_share,
    mobile_resolution_share |-> c.locals.mobile_resolution_share ]

Compute(role) ==
  /\ call = NoCall
  /\ call' = ComputeCall(role, compute_total_kg_co2e(assumptions, role))
  /\ assumptions' = assumptions_after_compute(assumptions, role)
  /\ UNCHANGED <<scan, load, sessions>>

Offsetting(total) ==
  /\ call = NoCall
  /\ call' = [ fn |-> "calculate_co2e_offsetting", total |-> total,
               ret |-> calculate_co2e_offsetting(total, assumptions.co2e_offsetting) ]
  /\ assumptions' =
       [assumptions EXCEPT !.co2e_offsetting = table_after_offsetting(total, @)]
  /\ UNCHANGED <<scan, load, sessions>>

Next ==
  \/ \E role \in RoleInputs : Compute(role)
  \/ \E total \in TotalInputs : Offsetting(total)

Spec ==
  Init /\ [][Next]_vars

\* The offsetting calculator applied to every table over the input savings,
\* the other assumptions at representative values.
OffsettingTableInputs ==
  { MakeAssumptions([d \in Devices |-> R(25)], [d \in Devices |-> R(100)],
                    ("480p" :> R(0) @@ "1080p" :> R(100) @@ "2160p" :> R(0)),
                    ("480p" :> R(0) @@ "1080p" :> R(100) @@ "2160p" :> R(0)),
                    ("computer" :> R(100) @@ "smartphone" :> R(20)
                       @@ "tablet" :> R(50) @@ "tv" :> R(200)),
                    off, R(1)) :
      off \in OffsettingInputs }

InitOffsetting ==
  /\ assumptions \in OffsettingTableInputs
  /\ call = NoCall
  /\ scan = NoScan
  /\ load = NoLoad
  /\ sessions = NoSessions

SpecOffsetting ==
  InitOffsetting /\ [][Next]_vars

\* The roles of the app (app.py:519).
seg_options ==
  {"producer", "consumer"}

\* The engine on non-negative Assumptions with any set of fields at 0.
InitZero ==
  /\ assumptions \in ZeroInputs
  /\ call = NoCall
  /\ scan = NoScan
  /\ load = NoLoad
  /\ sessions = NoSessions

NextZero ==
  \E role \in seg_options : Compute(role)

SpecZero ==
  InitZero /\ [][NextZero]_vars

(***************************************************************************)
(* The textual scan, line by line, over configuration texts put together   *)
(* from a few lines, and get_decimals on the map the scan built.           *)
(***************************************************************************)
\* The value of a line: a number by its sign, its digits before the point
\* and its digits after it; a word; or nothing (the start of a mapping).
Number(sign, whole, fraction) ==
  [kind |-> "number", sign |-> sign, whole |-> whole, fraction |-> fraction]

Word(word) ==
  [kind |-> "word", sign |-> "", whole |-> <<word>>, fraction |-> <<>>]

NoValue ==
  [kind |-> "none", sign |-> "", whole |-> <<>>, fraction |-> <<>>]

\* A line "key: value" at an indentation, with or without a trailing comment.
Entry(indent, key, value, comment) ==
  [entry |-> TRUE, indent |-> indent, key |-> key, value |-> value, comment |-> comment]

\* A line holding a comment only.
CommentLine(indent) ==
  [entry |-> FALSE, indent |-> indent, key |-> "", value |-> NoValue, comment |-> TRUE]

\* The tokens of a value, of a trailing comment and of a line.
ValueTokens(value) ==
  (IF value.sign = "" THEN <<>> ELSE <<value.sign>>)
    \o value.whole
    \o (IF value.fraction = <<>> THEN <<>> ELSE <<".">> \o value.fraction)

CommentTokens ==
  <<" ", "#", " ", "note">>

Render(line) ==
  [i \in 1..line.indent |-> " "]
    \o (IF line.entry THEN <<line.key, ":">> ELSE <<>>)
    \o (IF line.value.kind = "none" THEN <<>> ELSE <<" ">> \o ValueTokens(line.value))
    \o (IF line.comment THEN CommentTokens ELSE <<>>)

\* Mappings at indents 0 and 2, numbers with and without a fraction, a
\* minus sign, a plus sign or a trailing comment, a word and a comment line.
LineInputs ==
  { Entry(0, "a", NoValue, FALSE),
    Entry(0, "b", NoValue, TRUE),
    Entry(2, "b", NoValue, FALSE),
    Entry(0, "a", Number("", <<"3", "0">>, <<>>), FALSE),
    Entry(2, "x", Number("", <<"1">>, <<"5", "0">>), TRUE),
    Entry(4, "x", Number("-", <<"2">>, <<"5">>), FALSE),
    Entry(4, "y", Number("+", <<"7">>, <<"2", "5", "0">>), FALSE),
    Entry(2, "y", Word("text"), FALSE),
    CommentLine(2) }

\* A configuration text has any number of lines; the model scans texts of
\* at most MaxLines lines.
MaxLines ==
  3

ConfigTexts ==
  UNION { [1..n -> LineInputs] : n \in 0..MaxLines }

\* raw_text.splitlines() (line 70)
splitlines(text) ==
  [i \in 1..Len(text) |-> Render(text[i])]

\* No Assumptions object exists.
NoAssumptions ==
  [field \in {} |-> Zero]

DecimalsVariables ==
  {"a", "b"}

DecimalsSubkeys ==
  {None, "x"}

InitScan ==
  /\ scan \in {[text |-> text] @@ scan_start : text \in ConfigTexts}
  /\ call = NoCall
  /\ assumptions = NoAssumptions
  /\ load = NoLoad
  /\ sessions = NoSessions

\* The next iteration of the loop over the lines.
ScanLine ==
  /\ scan.pos >= 0
  /\ scan.pos < Len(scan.text)
  /\ scan' = [text |-> scan.text] @@ scan_step(scan, splitlines(scan.text))
  /\ UNCHANGED <<assumptions, call, load, sessions>>

\* get_decimals on the map of a finished scan.
GetDecimals(variable, subkey) ==
  /\ scan.pos >= 0
  /\ scan.pos = Len(scan.text)
  /\ call = NoCall
  /\ call' = [ fn |-> "get_decimals", variable |-> variable, subkey |-> subkey,
               ret |-> get_decimals(scan.decimals_map, variable, subkey) ]
  /\ UNCHANGED <<assumptions, scan, load, sessions>>

NextScan ==
  \/ ScanLine
  \/ \E variable \in DecimalsVariables, subkey \in DecimalsSubkeys :
       GetDecimals(variable, subkey)

SpecScan ==
  InitScan /\ [][NextScan]_vars

(***************************************************************************)
(* loader.load_assumptions and Assumptions.load_from_yaml, on              *)
(* configuration sources that exist or not, and whose document may lack    *)
(* fields.                                                                 *)
(***************************************************************************)
DigitSeq ==
  <<"0", "1", "2", "3", "4", "5", "6", "7", "8", "9">>

DigitValue(token) ==
  (CHOOSE i \in 1..10 : DigitSeq[i] = token) - 1

RECURSIVE int_of(_)
int_of(digits) ==
  IF digits = <<>> THEN 0
  ELSE int_of(SubSeq(digits, 1, Len(digits) - 1)) * 10 + DigitValue(digits[Len(digits)])

RECURSIVE Pow10(_)
Pow10(k) ==
  IF k = 0 THEN 1 ELSE 10 * Pow10(k - 1)

\* The float yaml.safe_load and float() make of a numeric literal.
float_of_literal(number) ==
  LET n == int_of(number.whole \o number.fraction)
  IN  Q(IF number.sign = "-" THEN -n ELSE n, Pow10(Len(number.fraction)))

\* A value of yaml_data under a key: a number, a string, or a dict for a
\* mapping nested under the key.
yaml_scalar(value) ==
  IF value.kind = "number"
  THEN [type |-> "number", value |-> float_of_literal(value)]
  ELSE IF value.kind = "mapping"
  THEN [type |-> "dict", value |-> Zero]
  ELSE [type |-> "str", value |-> Zero]

\* float(v) at lines 31 and 33: the number, ValueError for a string that is
\* not a number, TypeError for a dict.
float(v) ==
  IF v.type = "number" THEN [raised |-> "", value |-> v.value]
  ELSE IF v.type = "dict" THEN [raised |-> "TypeError", value |-> Zero]
  ELSE [raised |-> "ValueError", value |-> Zero]

\* The literal assumptions.yaml spells a non-negative number with: its
\* digits, with as many decimals as it needs.
RECURSIVE digits_of(_)
digits_of(n) ==
  IF n < 10 THEN <<DigitSeq[n + 1]>> ELSE Append(digits_of(n \div 10), DigitSeq[(n % 10) + 1])

RECURSIVE padded(_, _)
padded(n, width) ==
  IF width = 0 THEN <<>> ELSE Append(padded(n \div 10, width - 1), DigitSeq[(n % 10) + 1])

ToLiteral(q) ==
  LET k == CHOOSE k \in 0..4 : Pow10(k) % q[2] = 0 /\ \A j \in 0..(k - 1) : Pow10(j) % q[2] # 0
      scaled == q[1] * (Pow10(k) \div q[2])
  IN  Number("", digits_of(scaled \div Pow10(k)), padded(scaled % Pow10(k), k))

\* The fields of assumptions.yaml and the keys of its mappings, in the
\* order of the file.
FieldOrder ==
  << "device_percent", "fixed_network_percent", "fixed_network_resolution_percent",
     "mobile_network_resolution_percent", "device_production_kg_co2e",
     "device_lifetime_hours", "device_watts", "co2e_per_kWh", "network_kwh_per_gb",
     "network_kwh_per_user_per_hour", "datacenter_kg_co2e",
     "video_bitrate_GB_per_hour", "co2e_offsetting", "hours_input" >>

KeyOrder(field) ==
  CASE field \in {"fixed_network_resolution_percent", "mobile_network_resolution_percent",
                  "video_bitrate_GB_per_hour"} -> <<"480p", "1080p", "2160p">>
    [] field \in {"network_kwh_per_gb", "network_kwh_per_user_per_hour"} -> <<"fixed", "mobile">>
    [] field = "datacenter_kg_co2e" -> <<"per_GB", "per_hour">>
    [] field = "co2e_offsetting" ->
         <<"electric_vs_thermic_vehicle", "no_meat_meal_vs_chicken_meal">>
    [] OTHER -> <<"computer", "smartphone", "tablet", "tv">>

\* The defaults of assumptions.yaml: percent groups that sum to 100.
DefaultAssumptions ==
  MakeAssumptions(
    ("computer" :> R(50) @@ "smartphone" :> R(25) @@ "tablet" :> R(0) @@ "tv" :> R(25)),
    ("computer" :> R(100) @@ "smartphone" :> R(50) @@ "tablet" :> R(50) @@ "tv" :> R(100)),
    ("480p" :> R(25) @@ "1080p" :> R(50) @@ "2160p" :> R(25)),
    ("480p" :> R(50) @@ "1080p" :> R(50) @@ "2160p" :> R(0)),
    ("computer" :> R(100) @@ "smartphone" :> R(20) @@ "tablet" :> R(50) @@ "tv" :> R(200)),
    DefaultOffsetting,
    One)

\* A document: its top-level entries in order, each a scalar or a mapping
\* of scalars.
DocumentOf(a) ==
  [ i \in 1..Len(FieldOrder) |->
      LET field == FieldOrder[i]
      IN  IF field \in MappingFields
          THEN [ key |-> field, mapping |-> TRUE, value |-> NoValue,
                 items |-> [ j \in 1..Len(KeyOrder(field)) |->
                               [ key |-> KeyOrder(field)[j],
                                 value |-> ToLiteral(a[field][KeyOrder(field)[j]]) ] ] ]
          ELSE [ key |-> field, mapping |-> FALSE, value |-> ToLiteral(a[field]),
                 items |-> <<>> ] ]

RECURSIVE DocumentWithout(_, _)
DocumentWithout(document, missing) ==
  IF document = <<>> THEN <<>>
  ELSE IF Head(document).key \in missing THEN DocumentWithout(Tail(document), missing)
  ELSE <<Head(document)>> \o DocumentWithout(Tail(document), missing)

\* The document with the value of a top-level scalar replaced.
DocumentWith(document, field, value) ==
  [ i \in 1..Len(document) |->
      IF document[i].key = field THEN [document[i] EXCEPT !.value = value]
      ELSE document[i] ]

\* A mapping written as the value of a key of a mapping.
Mapping(items) ==
  [kind |-> "mapping", sign |-> "", whole |-> <<>>, fraction |-> <<>>, items |-> items]

\* The document with the value of one key of a mapping replaced.
DocumentWithItem(document, field, key, value) ==
  [ i \in 1..Len(document) |->
      IF document[i].key = field
      THEN [ document[i] EXCEPT
               !.items = [ j \in 1..Len(@) |->
                             IF @[j].key = key THEN [@[j] EXCEPT !.value = value]
                             ELSE @[j] ] ]
      ELSE document[i] ]

\* The lines of the keys of a mapping, at an indentation.
RECURSIVE ItemLines(_, _)
ItemLines(items, indent) ==
  IF items = <<>> THEN <<>>
  ELSE IF Head(items).value.kind = "mapping"
  THEN <<Entry(indent, Head(items).key, NoValue, FALSE)>>
         \o ItemLines(Head(items).value.items, indent + 2)
         \o ItemLines(Tail(items), indent)
  ELSE <<Entry(indent, Head(items).key, Head(items).value, FALSE)>>
         \o ItemLines(Tail(items), indent)

\* The lines of the file of a document.
RECURSIVE DocumentLines(_)
DocumentLines(document) ==
  IF document = <<>> THEN <<>>
  ELSE <<Entry(0, Head(document).key, Head(document).value, FALSE)>>
         \o ItemLines(Head(document).items, 2)
         \o DocumentLines(Tail(document))

\* yaml.safe_load(raw_text) (line 23): the mapping of the document.
safe_load(document) ==
  [ key \in {document[i].key : i \in 1..Len(document)} |->
      LET entry == document[CHOOSE i \in 1..Len(document) : document[i].key = key]
      IN  IF entry.mapping
          THEN [ dict |-> TRUE,
                 items |-> [ k \in {entry.items[j].key : j \in 1..Len(entry.items)} |->
                               yaml_scalar(
                                 entry.items[CHOOSE j \in 1..Len(entry.items) :
                                               entry.items[j].key = k].value) ] ]
          ELSE [dict |-> FALSE, scalar |-> yaml_scalar(entry.value)] ]

\* A configuration source: the file of a document, or no file.
NoFile ==
  [exists |-> FALSE, document |-> <<>>]

FileOf(document) ==
  [exists |-> TRUE, document |-> document]

\* The conversions of the loop of lines 28-33, in the order of the file.
RECURSIVE conversions(_)
conversions(document) ==
  IF document = <<>> THEN <<>>
  ELSE ( IF Head(document).mapping
         THEN [ j \in 1..Len(Head(document).items) |->
                  float(yaml_scalar(Head(document).items[j].value)) ]
         ELSE <<float(yaml_scalar(Head(document).value))>> )
         \o conversions(Tail(document))

\* The error of the first conversion that raises, "" when none does.
RECURSIVE first_raised(_)
first_raised(results) ==
  IF results = <<>> THEN ""
  ELSE IF Head(results).raised # "" THEN Head(results).raised
  ELSE first_raised(Tail(results))

\* assumptions_path.open(...) and the body of load_from_yaml (lines 21-33):
\* the error raised, the precision map and the attributes set.
load_from_yaml(source) ==
  IF ~source.exists
  THEN [ error |-> "FileNotFoundError", decimals_map |-> EmptyDecimalsMap,
         attributes |-> NoAssumptions ]
  ELSE LET yaml_data == safe_load(source.document)
           floats == [ key \in DOMAIN yaml_data |->
                         IF yaml_data[key].dict
                         THEN [k \in DOMAIN yaml_data[key].items |->
                                 float(yaml_data[key].items[k])]
                         ELSE ("" :> float(yaml_data[key].scalar)) ]
       IN  [ error |-> first_raised(conversions(source.document)),
             decimals_map |->
               compute_decimals_map_from_yaml(splitlines(DocumentLines(source.document))),
             attributes |->
               [ key \in DOMAIN yaml_data |->
                   IF yaml_data[key].dict
                   THEN [k \in DOMAIN floats[key] |-> floats[key][k].value]
                   ELSE floats[key][""].value ] ]

\* Assumptions(assumptions_path) (lines 11-13).
Assumptions(source) ==
  [constructed |-> TRUE] @@ load_from_yaml(source)

\* Mutant: no check that the file exists before the object is built.
load_assumptions_unchecked(source) ==
  Assumptions(source)

load_assumptions(source) ==
  IF ~source.exists
  THEN [ constructed |-> FALSE, error |-> "FileNotFoundError",
         decimals_map |-> EmptyDecimalsMap, attributes |-> NoAssumptions ]
  ELSE Assumptions(source)

\* A mapping nested at depth two: the idle and active values of one key.
NestedWatts ==
  Mapping(<< [key |-> "idle", value |-> Number("", <<"5">>, <<>>)],
             [key |-> "active", value |-> Number("", <<"5", "0">>, <<"5">>)] >>)

\* The fields compute_total_kg_co2e reads through assumptions[...].
RequiredFields ==
  ZeroableFields \cup {"hours_input"}

\* A document lacks any number of fields; the model drops at most
\* MaxMissing of them.
MaxMissing ==
  2

ConfigSources ==
  {NoFile}
    \cup { FileOf(DocumentWithout(DocumentOf(DefaultAssumptions), missing)) :
           missing \in {m \in SUBSET (DOMAIN DefaultAssumptions) : Cardinality(m) <= MaxMissing} }
    \cup { FileOf(DocumentWith(DocumentOf(DefaultAssumptions), "co2e_per_kWh", Word("low"))) }
    \cup { FileOf(DocumentWith(DocumentOf(DefaultAssumptions), "co2e_per_kWh",
                               Number("+", <<"0">>, <<"5">>))) }
    \cup { FileOf(DocumentWithItem(DocumentOf(DefaultAssumptions), field, KeyOrder(field)[1],
                                   NestedWatts)) :
           field \in {"device_watts", "co2e_offsetting"} }

InitLoad ==
  /\ load \in {[pc |-> "start", source |-> source] : source \in ConfigSources}
  /\ assumptions = NoAssumptions
  /\ call = NoCall
  /\ scan = NoScan
  /\ sessions = NoSessions

\* load_assumptions(): the Assumptions object returned, or the error raised.
LoadAssumptions ==
  /\ load.pc = "start"
  /\ LET loaded == load_assumptions(load.source)
     IN  /\ load' = [ pc |-> IF loaded.error = "" THEN "returned" ELSE "raised",
                      source |-> load.source, error |-> loaded.error,
                      constructed |-> loaded.constructed,
                      decimals_map |-> loaded.decimals_map ]
         /\ assumptions' = IF loaded.error = "" THEN loaded.attributes ELSE NoAssumptions
  /\ UNCHANGED <<call, scan, sessions>>

\* getattr(self, key) of a field that was not loaded (lines 15-17).
RaisedAttributeError ==
  [raised |-> TRUE, error |-> "AttributeError"]

\* compute_total_kg_co2e on the loaded object.
ComputeLoaded(role) ==
  /\ load.pc = "returned"
  /\ call = NoCall
  /\ call' = IF RequiredFields \subseteq DOMAIN assumptions
             THEN ComputeCall(role, compute_total_kg_co2e(assumptions, role))
             ELSE [fn |-> "compute_total_kg_co2e", role |-> role, ret |-> RaisedAttributeError]
  /\ UNCHANGED <<assumptions, load, scan, sessions>>

NextLoad ==
  \/ LoadAssumptions
  \/ \E role \in seg_options : ComputeLoaded(role)

SpecLoad ==
  InitLoad /\ [][NextLoad]_vars

(***************************************************************************)
(* app.py: one run of main() for a session, from the state of its widgets. *)
(***************************************************************************)
\* The replacement fields of the text "details_text" (translations.py:32-51).
details_text_fields ==
  { "device_production_co2_per_video_hour_total",
    "device_energy_co2_per_video_hour_total",
    "device_production_co2_per_video_hour_total_plus_energy",
    "network_share_fixed", "network_share_mobile",
    "fixed_network_resolution_percent_480p",
    "fixed_network_resolution_percent_1080p",
    "fixed_network_resolution_percent_2160p",
    "mobile_network_resolution_percent_480p",
    "mobile_network_resolution_percent_1080p",
    "mobile_network_resolution_percent_2160p", "gb_per_hour_fixed",
    "gb_per_hour_mobile", "network_kwh_per_video_hour_fixed",
    "network_kwh_per_video_hour_mobile", "network_kwh_per_video_hour_total",
    "network_co2_per_video_hour_total", "gb_per_hour_total_weighted",
    "datacenter_co2_per_video_hour_transfer",
    "datacenter_co2_per_video_hour_runtime",
    "datacenter_co2_per_video_hour_total", "kg_per_video_hour_total",
    "hours_input", "total_kg_co2e" }

\* The replacement fields of "even_more_details_text" (translations.py:54-123).
even_more_details_text_fields ==
  { "device_production_kg_co2e_computer", "device_lifetime_hours_computer",
    "device_percent_computer",
    "device_production_co2_per_video_hour_by_device_computer",
    "device_production_kg_co2e_smartphone",
    "device_lifetime_hours_smartphone", "device_percent_smartphone",
    "device_production_co2_per_video_hour_by_device_smartphone",
    "device_production_kg_co2e_tablet", "device_lifetime_hours_tablet",
    "device_percent_tablet",
    "device_production_co2_per_video_hour_by_device_tablet",
    "device_production_kg_co2e_tv", "device_lifetime_hours_tv",
    "device_percent_tv", "device_production_co2_per_video_hour_by_device_tv",
    "device_production_co2_per_video_hour_total", "device_watts_computer",
    "device_energy_kwh_per_video_hour_by_device_computer",
    "device_energy_co2_per_video_hour_by_device_computer",
    "device_watts_smartphone",
    "device_energy_kwh_per_video_hour_by_device_smartphone",
    "device_energy_co2_per_video_hour_by_device_smartphone",
    "device_watts_tablet",
    "device_energy_kwh_per_video_hour_by_device_tablet",
    "device_energy_co2_per_video_hour_by_device_tablet", "device_watts_tv",
    "device_energy_kwh_per_video_hour_by_device_tv",
    "device_energy_co2_per_video_hour_by_device_tv",
    "device_energy_kwh_per_video_hour_total",
    "device_energy_co2_per_video_hour_total",
    "device_production_co2_per_video_hour_total_plus_energy",
    "network_share_fixed", "network_share_mobile",
    "video_bitrate_GB_per_hour_480p", "fixed_network_resolution_percent_480p",
    "video_bitrate_GB_per_hour_1080p",
    "fixed_network_resolution_percent_1080p",
    "video_bitrate_GB_per_hour_2160p",
    "fixed_network_resolution_percent_2160p", "gb_per_hour_fixed",
    "mobile_network_resolution_percent_480p",
    "mobile_network_resolution_percent_1080p",
    "mobile_network_resolution_percent_2160p", "gb_per_hour_mobile",
    "network_a_kwh_per_gb_fixed", "network_b_kwh_per_user_hour_fixed",
    "network_kwh_per_video_hour_fixed", "network_a_kwh_per_gb_mobile",
    "network_b_kwh_per_user_hour_mobile", "network_kwh_per_video_hour_mobile",
    "network_kwh_per_video_hour_total", "network_co2_per_video_hour_total",
    "co2e_per_kWh", "datacenter_kg_co2e_per_GB", "gb_per_hour_total_weighted",
    "datacenter_co2_per_video_hour_transfer", "datacenter_kg_co2e_per_hour",
    "datacenter_co2_per_video_hour_runtime",
    "datacenter_co2_per_video_hour_total", "kg_per_video_hour_total",
    "hours_input", "total_kg_co2e", "production_co2_total",
    "device_energy_co2_total", "network_co2_total", "datacenter_co2_total" }

\* f"{key}_{subkey}" for a sub-key of _decimals_map, a tuple.
str_of_path(path) ==
  IF path[2] = None
  THEN "('" \o path[1] \o "', None)"
  ELSE "('" \o path[1] \o "', '" \o path[2] \o "')"

\* Mutant: the nested mappings left under their top-level keys.
flatten_assumptions_top_level(attributes, decimals_map) ==
  DOMAIN attributes \cup {"_decimals_map"}

\* The keys of flatten_assumptions(assumptions.__dict__): the attributes set
\* from the file and by the page, and _decimals_map.
flatten_assumptions(attributes, decimals_map) ==
  UNION { IF key \in MappingFields
          THEN {key \o "_" \o subkey : subkey \in DOMAIN attributes[key]}
          ELSE {key} : key \in DOMAIN attributes }
    \cup {"_decimals_map_" \o str_of_path(path) : path \in DOMAIN decimals_map}

\* str.format(**fmt_ctx) of a text with the given replacement fields.
format_error(fields, fmt_ctx_keys) ==
  IF fields \subseteq fmt_ctx_keys THEN "" ELSE "KeyError"

\* An optional limit of a widget.
NoLimit ==
  [set |-> FALSE, value |-> Zero]

Limit(q) ==
  [set |-> TRUE, value |-> q]

\* The text of an input box: the value as displayed, a text float() parses
\* to a number, or a text it rejects.
Unedited ==
  [typed |-> FALSE, parses |-> FALSE, number |-> Zero]

Typed(q) ==
  [typed |-> TRUE, parses |-> TRUE, number |-> q]

Garbage ==
  [typed |-> TRUE, parses |-> FALSE, number |-> Zero]

\* round(x, decimals): to the nearest multiple of 10^-decimals, ties to even.
round_to_even(below, twice_rest, unit) ==
  IF twice_rest > unit \/ (twice_rest = unit /\ below % 2 = 1)
  THEN below + 1
  ELSE below

round_scaled(scaled, decimals) ==
  Q(round_to_even(scaled[1] \div scaled[2], 2 * (scaled[1] % scaled[2]), scaled[2]),
    Pow10(decimals))

round(x, decimals) ==
  round_scaled(RMul(x, R(Pow10(decimals))), decimals)

\* number_input_localized in French (lines 46-63): the text parsed, the
\* default kept when it does not parse, clamped and rounded.
number_input_localized(raw, value, min_value, max_value, decimals) ==
  LET parsed == IF ~raw.typed THEN round(value, decimals)
                ELSE IF raw.parses THEN raw.number
                ELSE value
      floored == IF min_value.set THEN RMax(min_value.value, parsed) ELSE parsed
      capped == IF max_value.set THEN RMin(max_value.value, floored) ELSE floored
  IN  round(capped, decimals)

\* main_assumptions and secondary_assumptions of render_sidebar.
main_assumptions ==
  { "device_percent", "fixed_network_percent", "fixed_network_resolution_percent",
    "mobile_network_resolution_percent" }

secondary_assumptions ==
  { "device_production_kg_co2e", "device_lifetime_hours", "device_watts", "co2e_per_kWh",
    "network_kwh_per_gb", "network_kwh_per_user_per_hour", "datacenter_kg_co2e",
    "video_bitrate_GB_per_hour", "co2e_offsetting" }

metadata(variable) ==
  CASE variable = "device_percent" ->
         [sum_should_be |-> Limit(R(100)), variable_to_alter |-> "computer"]
    [] variable \in {"fixed_network_resolution_percent", "mobile_network_resolution_percent"} ->
         [sum_should_be |-> Limit(R(100)), variable_to_alter |-> "1080p"]
    [] OTHER -> [sum_should_be |-> NoLimit, variable_to_alter |-> ""]

\* Mutant: no message when the total is above the target.
sum_signal_below_only(total, sum_should_be) ==
  IF sum_should_be.set /\ RLt(total, sum_should_be.value) THEN "info" ELSE "none"

\* Lines 278-283: st.info below the target, st.error above it.
sum_signal(total, sum_should_be) ==
  IF ~sum_should_be.set THEN "none"
  ELSE IF RLt(total, sum_should_be.value) THEN "info"
  ELSE IF RGt(total, sum_should_be.value) THEN "error"
  ELSE "none"

\* Mutant: the values of the sliders stored as they are.
render_sliders_unaltered(variable, values) ==
  [ values |-> values,
    total |-> RSum(values, DOMAIN values),
    signal |-> sum_signal(RSum(values, DOMAIN values), metadata(variable).sum_should_be),
    error |-> "" ]

\* Lines 241-283 for a mapping rendered with sliders: the values stored, one
\* of them raised when the total is below the target.
render_sliders(variable, values) ==
  LET total == RSum(values, DOMAIN values)
      target == metadata(variable).sum_should_be
      alter == metadata(variable).variable_to_alter
  IN  [ values |->
          IF target.set /\ RLt(total, target.value)
          THEN [values EXCEPT ![alter] = RAdd(@, RSub(target.value, total))]
          ELSE values,
        total |-> total,
        signal |-> sum_signal(total, target),
        error |-> IF target.set /\ alter = "" THEN "ValueError" ELSE "" ]

\* Lines 241-258 and 285-301 for a variable rendered with input boxes.
render_inputs(defaults, variable, raw) ==
  IF variable \in MappingFields
  THEN [ subitem \in DOMAIN defaults.attributes[variable] |->
           number_input_localized(raw[subitem], defaults.attributes[variable][subitem],
                                  Limit(Zero), NoLimit,
                                  get_decimals(defaults.decimals_map, variable, subitem)) ]
  ELSE number_input_localized(raw, defaults.attributes[variable], Limit(Zero), NoLimit,
                              get_decimals(defaults.decimals_map, variable, None))

\* render_sidebar(defaults): the attributes of the object it returns, the
\* message of each variable and the error raised.
sidebar_of(defaults, widgets, sliders) ==
  [ attributes |->
      [ variable \in DOMAIN defaults.attributes |->
          IF variable \in main_assumptions
          THEN sliders[variable].values
          ELSE IF variable \in secondary_assumptions
          THEN render_inputs(defaults, variable, widgets.inputs[variable])
          ELSE defaults.attributes[variable] ],
    signals |-> [variable \in main_assumptions |-> sliders[variable].signal],
    error |->
      IF \E variable \in main_assumptions : sliders[variable].error # ""
      THEN "ValueError" ELSE "" ]

render_sidebar(defaults, widgets) ==
  sidebar_of(defaults, widgets,
             [ variable \in main_assumptions |->
                 render_sliders(variable, widgets.sliders[variable]) ])

\* The two calls of calculate_co2e_offsetting of a run (lines 467-472).
OffsettingCall(total, table) ==
  [ fn |-> "calculate_co2e_offsetting", total |-> total, table |-> table,
    raised |-> calculate_co2e_offsetting(total, table).raised ]

\* Mutant: the with-production total first.
offsetting_calls_swapped(ret, table) ==
  <<OffsettingCall(ret.with_production, table), OffsettingCall(ret.usage_only, table)>>

offsetting_calls(ret, table) ==
  <<OffsettingCall(ret.usage_only, table), OffsettingCall(ret.with_production, table)>>

\* The actions of the table, in the order of its keys.
actions_of(table) ==
  SelectSeq(KeyOrder("co2e_offsetting"), LAMBDA action : action \in DOMAIN table)

\* Mutant: a row for each action a count was computed for.
offsetting_rows_computed_only(table, offsetting_usage, offsetting_with_prod) ==
  [ i \in 1..Len(actions_of(offsetting_usage)) |->
      [ action |-> actions_of(offsetting_usage)[i],
        usage |-> round(offsetting_usage[actions_of(offsetting_usage)[i]], 2),
        with_production |->
          round(offsetting_with_prod[actions_of(offsetting_usage)[i]], 2) ] ]

\* Lines 479-487: the rows of the offsetting table, the counts formatted
\* with two decimals, 0.0 for an action without a count.
offsetting_rows(table, offsetting_usage, offsetting_with_prod) ==
  [ i \in 1..Len(actions_of(table)) |->
      [ action |-> actions_of(table)[i],
        usage |-> round(Get(offsetting_usage, actions_of(table)[i], Zero), 2),
        with_production |->
          round(Get(offsetting_with_prod, actions_of(table)[i], Zero), 2) ] ]

\* Lines 427-506 of render_page, the compute button pressed: the calls made,
\* in order, and the error that ended the run.
page_after_compute(role, a, decimals_map, c) ==
  IF c.ret.raised
  THEN [ calls |-> <<[fn |-> "compute_total_kg_co2e", role |-> role, raised |-> TRUE]>>,
         rows |-> <<>>, error |-> "ZeroDivisionError", details |-> "none" ]
  ELSE LET fmt_ctx_keys ==
             DOMAIN c.ret.intermediate_values \cup flatten_assumptions(a, decimals_map)
           error == IF format_error(details_text_fields, fmt_ctx_keys) # ""
                    THEN format_error(details_text_fields, fmt_ctx_keys)
                    ELSE format_error(even_more_details_text_fields, fmt_ctx_keys)
       IN  [ calls |->
               <<[ fn |-> "compute_total_kg_co2e", role |-> role, raised |-> FALSE,
                   usage_only |-> c.ret.usage_only,
                   with_production |-> c.ret.with_production ]>>
                 \o offsetting_calls(c.ret, a.co2e_offsetting),
             rows |->
               offsetting_rows(
                 a.co2e_offsetting,
                 calculate_co2e_offsetting(c.ret.usage_only, a.co2e_offsetting).offsetting,
                 calculate_co2e_offsetting(c.ret.with_production,
                                           a.co2e_offsetting).offsetting),
             error |-> error,
             details |-> IF error = "" THEN "formatted" ELSE "none" ]

\* render_page(role, assumptions): hours_input set from its widget, then the
\* compute button.
page_attributes(attributes, hours) ==
  [ variable \in DOMAIN attributes \cup {"hours_input"} |->
      IF variable = "hours_input" THEN R(hours) ELSE attributes[variable] ]

render_page(role, a, decimals_map, clicked) ==
  IF clicked
  THEN page_after_compute(role, a, decimals_map, compute_total_kg_co2e(a, role))
  ELSE [calls |-> <<>>, rows |-> <<>>, error |-> "", details |-> "none"]

\* role = seg_options[0] if selected == T(seg_options[0]) else seg_options[1]
role_of(selected) ==
  IF selected = "producer" THEN "producer" ELSE "consumer"

\* The session after a run: what the run left of the sidebar and the page.
session_after(widgets, clicked, sidebar, a, page) ==
  IF sidebar.error # ""
  THEN [ widgets |-> widgets, clicked |-> clicked, assumptions |-> sidebar.attributes,
         signals |-> sidebar.signals, calls |-> <<>>, rows |-> <<>>,
         error |-> sidebar.error, details |-> "none" ]
  ELSE [ widgets |-> widgets, clicked |-> clicked, assumptions |-> a,
         signals |-> sidebar.signals, calls |-> page.calls, rows |-> page.rows,
         error |-> page.error, details |-> page.details ]

run_page(defaults, widgets, clicked, sidebar, a) ==
  session_after(widgets, clicked, sidebar, a,
                render_page(role_of(widgets.selected), a, defaults.decimals_map, clicked))

run_sidebar(defaults, widgets, clicked, sidebar) ==
  run_page(defaults, widgets, clicked, sidebar,
           page_attributes(sidebar.attributes, widgets.hours))

\* main(): defaults loaded, sidebar rendered, page rendered.
main(defaults, widgets, clicked) ==
  run_sidebar(defaults, widgets, clicked, render_sidebar(defaults, widgets))

\* load_assumptions() of assumptions.yaml (line 522).
Defaults ==
  load_assumptions(FileOf(DocumentOf(DefaultAssumptions)))

\* The positions of the sliders of a variable, between 0 and 100.
SliderInputs(variable) ==
  {DefaultAssumptions[variable]} \cup
  CASE variable = "device_percent" ->
         { ("computer" :> R(25) @@ "smartphone" :> R(0) @@ "tablet" :> R(25) @@ "tv" :> R(0)),
           ("computer" :> R(100) @@ "smartphone" :> R(50) @@ "tablet" :> R(25) @@ "tv" :> R(25)) }
    [] variable = "fixed_network_percent" ->
         { ("computer" :> R(0) @@ "smartphone" :> R(100) @@ "tablet" :> R(50) @@ "tv" :> R(25)) }
    [] OTHER ->
         { [r \in Resolutions |-> R(0)],
           ("480p" :> R(100) @@ "1080p" :> R(50) @@ "2160p" :> R(50)) }

\* The texts of the input boxes of a variable: as displayed and, for the
\* lifetimes, a negative number, a half, a text that is no number and 250.
InputBoxInputs(variable) ==
  { IF variable \in MappingFields
    THEN [subitem \in DOMAIN DefaultAssumptions[variable] |-> Unedited]
    ELSE Unedited } \cup
  IF variable = "device_lifetime_hours"
  THEN { ("computer" :> Typed(R(-5)) @@ "smartphone" :> Typed(Q(1, 2))
            @@ "tablet" :> Garbage @@ "tv" :> Typed(R(250))) }
  ELSE {}

\* The widgets of a session that opens the page.
DefaultWidgets ==
  [ sliders |-> [variable \in main_assumptions |-> Defaults.attributes[variable]],
    inputs |-> [ variable \in secondary_assumptions |->
                   IF variable \in MappingFields
                   THEN [subitem \in DOMAIN Defaults.attributes[variable] |-> Unedited]
                   ELSE Unedited ],
    hours |-> Defaults.attributes.hours_input[1],
    selected |-> "producer" ]

SessionIds ==
  {"session"}

InitApp ==
  /\ sessions = [s \in SessionIds |-> main(Defaults, DefaultWidgets, FALSE)]
  /\ assumptions = NoAssumptions
  /\ call = NoCall
  /\ scan = NoScan
  /\ load = NoLoad

\* Mutant: one Assumptions instance shared by the sessions.
Rerun_shared_instance(s, widgets, clicked) ==
  /\ sessions' =
       [ t \in DOMAIN sessions |->
           IF t = s THEN main(Defaults, widgets, clicked)
           ELSE [ sessions[t] EXCEPT
                    !.assumptions = main(Defaults, widgets, clicked).assumptions ] ]
  /\ UNCHANGED <<assumptions, call, scan, load>>

\* A widget changed and main() run again, the compute button not pressed.
Rerun(s, widgets, clicked) ==
  /\ sessions' = [sessions EXCEPT ![s] = main(Defaults, widgets, clicked)]
  /\ UNCHANGED <<assumptions, call, scan, load>>

MoveSliders(s, variable, values) ==
  Rerun(s, [sessions[s].widgets EXCEPT !.sliders[variable] = values], FALSE)

TypeInputs(s, variable, raw) ==
  Rerun(s, [sessions[s].widgets EXCEPT !.inputs[variable] = raw], FALSE)

SetHours(s, hours) ==
  Rerun(s, [sessions[s].widgets EXCEPT !.hours = hours], FALSE)

SelectRole(s, selected) ==
  Rerun(s, [sessions[s].widgets EXCEPT !.selected = selected], FALSE)

\* The compute button pressed: main() run with the widgets as they are.
PressCompute(s) ==
  Rerun(s, sessions[s].widgets, TRUE)

NextApp ==
  \E s \in DOMAIN sessions :
    \/ \E variable \in main_assumptions : \E values \in SliderInputs(variable) :
         MoveSliders(s, variable, values)
    \/ \E variable \in secondary_assumptions : \E raw \in InputBoxInputs(variable) :
         TypeInputs(s, variable, raw)
    \/ \E hours \in 0..MaxHours : SetHours(s, hours)
    \/ \E selected \in seg_options : SelectRole(s, selected)
    \/ PressCompute(s)

SpecApp ==
  InitApp /\ [][NextApp]_vars

(***************************************************************************)
(* Two sessions of the page, their runs of main() interleaved.             *)
(***************************************************************************)
ServerSessions ==
  {"first", "second"}

InitSessions ==
  /\ sessions = [s \in ServerSessions |-> main(Defaults, DefaultWidgets, FALSE)]
  /\ assumptions = NoAssumptions
  /\ call = NoCall
  /\ scan = NoScan
  /\ load = NoLoad

NextSessions ==
  \E s \in DOMAIN sessions :
    \/ \E values \in SliderInputs("device_percent") : MoveSliders(s, "device_percent", values)
    \/ \E hours \in 0..MaxHours : SetHours(s, hours)
    \/ PressCompute(s)

SpecSessions ==
  InitSessions /\ [][NextSessions]_vars

(***************************************************************************)
(* number_input_localized applied once to a text typed in its box.         *)
(***************************************************************************)
\* Line 55: the raw text without its spaces, its commas made dots.
RECURSIVE normalized(_)
normalized(raw) ==
  IF raw = <<>> THEN <<>>
  ELSE IF Head(raw) \in {" ", "nbsp"} THEN normalized(Tail(raw))
  ELSE <<IF Head(raw) = "," THEN "." ELSE Head(raw)>> \o normalized(Tail(raw))

\* Lines 56-59: float(text) of a signed decimal number, ValueError for any
\* other text.
float_of_text(sign, unsigned, point) ==
  LET whole == IF point = 0 THEN unsigned ELSE SubSeq(unsigned, 1, point - 1)
      fraction == IF point = 0 THEN <<>> ELSE SubSeq(unsigned, point + 1, Len(unsigned))
  IN  IF /\ whole \o fraction # <<>>
         /\ \A i \in 1..Len(whole) : whole[i] \in DigitTokens
         /\ \A i \in 1..Len(fraction) : fraction[i] \in DigitTokens
      THEN Typed(float_of_literal(Number(sign, whole, fraction)))
      ELSE Garbage

text_input(raw) ==
  LET text == normalized(raw)
      signed == text # <<>> /\ Head(text) \in {"-", "+"}
      unsigned == IF signed THEN Tail(text) ELSE text
  IN  float_of_text(IF signed THEN Head(text) ELSE "", unsigned, find(unsigned, "."))

\* The texts typed: numbers with a comma, a dot, a sign or a space between
\* thousands, a word, nothing, two commas.
RawTexts ==
  { <<"1", ",", "5">>, <<"0", ".", "1">>, <<"-", "5">>, <<"+", "9">>,
    <<"1", " ", "0", "0", "0">>, <<"1", "nbsp", "2">>, <<"abc">>, <<>>,
    <<"1", ",", "2", ",", "3">>, <<",", "5">>, <<"7", ",">> }

MaxDecimals ==
  2

ValueInputs ==
  {Q(1, 2), R(3), Q(1001, 1000)}

LimitInputs ==
  {NoLimit, Limit(Zero), Limit(Q(1, 8)), Limit(Q(3, 8)), Limit(R(100))}

InitInput ==
  /\ call = NoCall
  /\ assumptions = NoAssumptions
  /\ scan = NoScan
  /\ load = NoLoad
  /\ sessions = NoSessions

\* One call in French: the box left as displayed, or a text typed in it.
NumberInput(raw, parsed, value, min_value, max_value, decimals) ==
  /\ call = NoCall
  /\ call' = [ fn |-> "number_input_localized", raw |-> raw, parsed |-> parsed,
               value |-> value, min_value |-> min_value, max_value |-> max_value,
               decimals |-> decimals,
               ret |-> number_input_localized(parsed, value, min_value, max_value,
                                              decimals) ]
  /\ UNCHANGED <<assumptions, scan, load, sessions>>

NextInput ==
  \E value \in ValueInputs, min_value \in LimitInputs, max_value \in LimitInputs,
     decimals \in 0..MaxDecimals :
    \/ NumberInput(<<"displayed">>, Unedited, value, min_value, max_value, decimals)
    \/ \E raw \in RawTexts :
         NumberInput(raw, text_input(raw), value, min_value, max_value, decimals)

SpecInput ==
  InitInput /\ [][NextInput]_vars

(***************************************************************************)
(* Properties of the engine.                                               *)
(***************************************************************************)
IsCompute ==
  call.fn = "compute_total_kg_co2e"

IsOffsetting ==
  call.fn = "calculate_co2e_offsetting"

Returned ==
  IsCompute /\ ~call.ret.raised

\* intermediate_values of the call in the current state.
Breakdown ==
  call.ret.intermediate_values

AllAtLeastZero(dict) ==
  \A k \in DOMAIN dict : RLe(Zero, dict[k])

AllZero(dict) ==
  \A k \in DOMAIN dict : dict[k] = Zero

NonNegative(a) ==
  /\ AllAtLeastZero(a.device_percent)
  /\ AllAtLeastZero(a.fixed_network_percent)
  /\ AllAtLeastZero(a.fixed_network_resolution_percent)
  /\ AllAtLeastZero(a.mobile_network_resolution_percent)
  /\ AllAtLeastZero(a.device_production_kg_co2e)
  /\ AllAtLeastZero(a.device_lifetime_hours)
  /\ AllAtLeastZero(a.device_watts)
  /\ AllAtLeastZero(a.network_kwh_per_gb)
  /\ AllAtLeastZero(a.network_kwh_per_user_per_hour)
  /\ AllAtLeastZero(a.datacenter_kg_co2e)
  /\ AllAtLeastZero(a.video_bitrate_GB_per_hour)
  /\ RLe(Zero, a.co2e_per_kWh)
  /\ RLe(Zero, a.hours_input)

\* C1: for Assumptions with non-negative values, the with-production total is
\* the usage-only total plus production_co2_total, and the usage-only total is
\* device_energy_co2_total + network_co2_total + datacenter_co2_total, so the
\* four category totals sum to the with-production total.
C1_Decomposition ==
  (Returned /\ NonNegative(assumptions)) =>
    /\ call.ret.with_production =
         RAdd(call.ret.usage_only, Breakdown["production_co2_total"])
    /\ call.ret.usage_only =
         RAdd(RAdd(Breakdown["device_energy_co2_total"], Breakdown["network_co2_total"]),
              Breakdown["datacenter_co2_total"])
    /\ call.ret.with_production =
         RAdd(RAdd(Breakdown["production_co2_total"], Breakdown["device_energy_co2_total"]),
              RAdd(Breakdown["network_co2_total"], Breakdown["datacenter_co2_total"]))

\* A call on non-negative Assumptions with hours and a production share, so
\* that all four category totals are positive.
C1_Witness ==
  /\ Returned
  /\ NonNegative(assumptions)
  /\ RGt(Breakdown["production_co2_total"], Zero)
  /\ RGt(Breakdown["device_energy_co2_total"], Zero)
  /\ RGt(Breakdown["network_co2_total"], Zero)
  /\ RGt(Breakdown["datacenter_co2_total"], Zero)

\* C2: each returned total is its per-hour total times hours_input times 52,
\* and hours_input_year is hours_input times 52.
C2_Annualization ==
  Returned =>
    /\ call.ret.usage_only =
         RMul(Breakdown["kg_per_video_hour_usage_only"], RMul(assumptions.hours_input, R(52)))
    /\ call.ret.with_production =
         RMul(Breakdown["kg_per_video_hour_total"], RMul(assumptions.hours_input, R(52)))
    /\ call.ret.usage_only =
         RMul(RMul(Breakdown["kg_per_video_hour_usage_only"], assumptions.hours_input), R(52))
    /\ call.ret.with_production =
         RMul(RMul(Breakdown["kg_per_video_hour_total"], assumptions.hours_input), R(52))
    /\ Breakdown["hours_input_year"] = RMul(assumptions.hours_input, R(52))

C2_Witness ==
  /\ Returned
  /\ RGt(assumptions.hours_input, One)
  /\ RGt(Breakdown["kg_per_video_hour_total"], Breakdown["kg_per_video_hour_usage_only"])

\* C3: for a device_percent mapping with non-negative entries and a positive
\* sum, the device usage fractions sum to 1 and each is percent[d] divided by
\* the sum of the percents.
C3_ShareRenormalization ==
  LET percent == assumptions.device_percent
      sum == RSum(percent, DOMAIN percent)
  IN  (IsCompute /\ AllAtLeastZero(percent) /\ RGt(sum, Zero)) =>
        /\ DOMAIN call.device_usage_share_fraction = DOMAIN percent
        /\ RSum(call.device_usage_share_fraction, DOMAIN percent) = One
        /\ \A d \in DOMAIN percent :
             call.device_usage_share_fraction[d] = RDiv(percent[d], sum)

\* A call whose device percents sum to 150, unevenly spread.
C3_Witness ==
  /\ IsCompute
  /\ RSum(assumptions.device_percent, Devices) = R(150)
  /\ call.device_usage_share_fraction["tv"] = Zero

\* C4: when all entries of a percent group are 0, the call raises no error
\* and the group's fractions are all 0, so that the group contributes 0
\* (device energy and production, or that network's GB per hour).
C4_ZeroSum ==
  IsCompute =>
    /\ AllZero(assumptions.device_percent) =>
         /\ ~call.ret.raised
         /\ AllZero(call.device_usage_share_fraction)
         /\ Breakdown["device_energy_co2_per_video_hour_total"] = Zero
         /\ Breakdown["device_energy_kwh_per_video_hour_total"] = Zero
         /\ Breakdown["device_production_co2_per_video_hour_total"] = Zero
    /\ AllZero(assumptions.fixed_network_resolution_percent) =>
         /\ ~call.ret.raised
         /\ AllZero(call.fixed_resolution_share)
         /\ Breakdown["gb_per_hour_fixed"] = Zero
    /\ AllZero(assumptions.mobile_network_resolution_percent) =>
         /\ ~call.ret.raised
         /\ AllZero(call.mobile_resolution_share)
         /\ Breakdown["gb_per_hour_mobile"] = Zero

\* A call with all three percent groups at 0.
C4_Witness ==
  /\ IsCompute
  /\ AllZero(assumptions.device_percent)
  /\ AllZero(assumptions.fixed_network_resolution_percent)
  /\ AllZero(assumptions.mobile_network_resolution_percent)

\* C5: a lifetime below 1 hour raises nothing and counts as 1 hour: the
\* device's hourly production is fraction[d] * production[d]; for a lifetime
\* of at least 1 it is fraction[d] * production[d] / lifetime[d].
C5_LifetimeFloor ==
  IsCompute =>
    /\ ~call.ret.raised
    /\ \A d \in DOMAIN assumptions.device_percent :
         LET fraction == call.device_usage_share_fraction[d]
             production == assumptions.device_production_kg_co2e[d]
             lifetime == assumptions.device_lifetime_hours[d]
             hourly == Breakdown["device_production_co2_per_video_hour_by_device_" \o d]
         IN  IF RLt(lifetime, One)
             THEN hourly = RMul(fraction, production)
             ELSE hourly = RDiv(RMul(fraction, production), lifetime)

\* A call in which a used device has lifetime 0 and another lifetime 1/2.
C5_Witness ==
  /\ IsCompute
  /\ assumptions.device_lifetime_hours["computer"] = Zero
  /\ assumptions.device_lifetime_hours["smartphone"] = Q(1, 2)
  /\ RGt(call.device_usage_share_fraction["computer"], Zero)
  /\ RGt(call.device_usage_share_fraction["smartphone"], Zero)

\* C6: the offsetting result has exactly the actions with saving > 0 as
\* keys, each mapped to total_kg / saving; no error is raised.
C6_OffsettingSkipRule ==
  IsOffsetting =>
    LET table == assumptions.co2e_offsetting
    IN  /\ ~call.ret.raised
        /\ DOMAIN call.ret.offsetting = {k \in DOMAIN table : RGt(table[k], Zero)}
        /\ \A k \in DOMAIN call.ret.offsetting :
             call.ret.offsetting[k] = RDiv(call.total, table[k])

\* An offsetting call on a table with a positive and a zero saving.
C6_Witness ==
  /\ IsOffsetting
  /\ call.total = Q(13, 2)
  /\ assumptions.co2e_offsetting["electric_vs_thermic_vehicle"] = Q(1, 2)
  /\ assumptions.co2e_offsetting["no_meat_meal_vs_chicken_meal"] = Zero
  /\ call.ret.offsetting = ("electric_vs_thermic_vehicle" :> R(13))

\* C7: with positive per-hour totals, the same Assumptions with a larger
\* hours_input give strictly larger usage-only and with-production totals.
C7_Monotonicity ==
  ( /\ Returned
    /\ RGt(Breakdown["kg_per_video_hour_usage_only"], Zero)
    /\ RGt(Breakdown["kg_per_video_hour_total"], Zero) ) =>
    \A hours2 \in HoursInputs :
      RLt(assumptions.hours_input, hours2) =>
        LET more == compute_total_kg_co2e(
                      [assumptions EXCEPT !.hours_input = hours2], call.role).ret
        IN  /\ ~more.raised
            /\ RLt(call.ret.usage_only, more.usage_only)
            /\ RLt(call.ret.with_production, more.with_production)

\* A call with positive per-hour totals and a larger hours_input to compare
\* with.
C7_Witness ==
  /\ Returned
  /\ RGt(Breakdown["kg_per_video_hour_usage_only"], Zero)
  /\ RGt(assumptions.hours_input, Zero)
  /\ \E hours2 \in HoursInputs : RLt(assumptions.hours_input, hours2)

\* The numeric entries of a breakdown: all but "role".
Numbers(values) ==
  [k \in DOMAIN values \ {"role"} |-> values[k]]

\* C8: the same Assumptions with another role give the same two totals and
\* the same breakdown entries except "role".
C8_RoleIndependence ==
  Returned =>
    \A role2 \in {"producer", "consumer"} :
      LET other == compute_total_kg_co2e(assumptions, role2).ret
      IN  /\ ~other.raised
          /\ other.usage_only = call.ret.usage_only
          /\ other.with_production = call.ret.with_production
          /\ Numbers(other.intermediate_values) = Numbers(Breakdown)

\* A call with the role "consumer" and positive totals.
C8_Witness ==
  /\ Returned
  /\ call.role = "consumer"
  /\ Breakdown["role"] = "consumer"
  /\ RGt(call.ret.usage_only, Zero)

\* C9 as stated: an unrecognised role raises nothing and is carried into
\* the breakdown as "producer".
C9_LabelDefaultsToProducer ==
  (IsCompute /\ call.role \notin {"producer", "consumer"}) =>
    /\ ~call.ret.raised
    /\ Breakdown["role"] = "producer"

\* C9, amended: an unrecognised role raises nothing and computes what
\* "producer" computes; the label carried into the breakdown is the role in
\* lower case, and "producer" only for an empty role.
C9_LabelIsLowercasedRole ==
  (IsCompute /\ call.role \notin {"producer", "consumer"}) =>
    /\ ~call.ret.raised
    /\ call.role = "Viewer" => Breakdown["role"] = "viewer"
    /\ call.role = "" => Breakdown["role"] = "producer"
    /\ LET producer == compute_total_kg_co2e(assumptions, "producer").ret
       IN  /\ producer.usage_only = call.ret.usage_only
           /\ producer.with_production = call.ret.with_production
           /\ Numbers(producer.intermediate_values) = Numbers(Breakdown)

\* A call with the unrecognised role "Viewer".
C9_Witness ==
  /\ Returned
  /\ call.role = "Viewer"
  /\ RGt(call.ret.with_production, Zero)

C12_NoExceptionOnNonNegative ==
  (IsCompute /\ NonNegative(assumptions)) =>
    /\ ~call.ret.raised
    /\ ~IsErr(call.ret.usage_only)
    /\ ~IsErr(call.ret.with_production)

\* A call on Assumptions whose numbers are all 0.
C12_Witness ==
  /\ Returned
  /\ \A field \in ZeroableFields :
       assumptions[field] = ZeroValue(PositiveAssumptions, field)
  /\ assumptions.hours_input = Zero

\* C13: for non-negative Assumptions the with-production total is at least
\* the usage-only total, and greater when hours_input is positive and some
\* device has a positive usage share and a positive production footprint.
C13_ProductionAddsUp ==
  (Returned /\ NonNegative(assumptions)) =>
    /\ RLe(call.ret.usage_only, call.ret.with_production)
    /\ ( ( /\ RGt(assumptions.hours_input, Zero)
           /\ \E device \in DOMAIN assumptions.device_percent :
                /\ RGt(call.device_usage_share_fraction[device], Zero)
                /\ RGt(assumptions.device_production_kg_co2e[device], Zero) )
         => RLt(call.ret.usage_only, call.ret.with_production) )

\* A call with hours, a positive usage total, and production footprints on
\* devices whose lifetimes are all 0.
C13_Witness ==
  /\ Returned
  /\ NonNegative(assumptions)
  /\ RGt(assumptions.hours_input, Zero)
  /\ AllZero(assumptions.device_lifetime_hours)
  /\ RGt(call.device_usage_share_fraction["tablet"], Zero)
  /\ RGt(assumptions.device_production_kg_co2e["tablet"], Zero)
  /\ RGt(call.ret.usage_only, Zero)
  /\ RLt(call.ret.usage_only, call.ret.with_production)

(***************************************************************************)
(* Properties of the precision map.                                        *)
(***************************************************************************)
IsGetDecimals ==
  call.fn = "get_decimals"

\* The line the scan has just processed.
Scanned ==
  scan.pos >= 1

Line ==
  scan.text[scan.pos]

\* A number written as an optional minus sign, digits, and optionally a
\* point followed by digits.
PlainNumber(value) ==
  value.kind = "number" /\ value.sign \in {"", "-"}

IsMappingStart(line) ==
  line.entry /\ line.value.kind = "none"

\* The line that encloses line i of a text: the nearest line before it with
\* a smaller indentation; 0 when line i is at the top level.
Container(text, i) ==
  LET outer == {j \in 1..(i - 1) : text[j].entry /\ text[j].indent < text[i].indent}
  IN  IF outer = {} THEN 0 ELSE CHOOSE j \in outer : \A k \in outer : k <= j

\* Every line enclosing line i starts a mapping.
RECURSIVE InMappings(_, _)
InMappings(text, i) ==
  \/ Container(text, i) = 0
  \/ /\ IsMappingStart(text[Container(text, i)])
     /\ InMappings(text, Container(text, i))

\* The outermost line enclosing line i (line i itself at the top level).
RECURSIVE Outermost(_, _)
Outermost(text, i) ==
  IF Container(text, i) = 0 THEN i ELSE Outermost(text, Container(text, i))

\* C14: get_decimals(variable, subkey) returns the entry recorded for
\* (variable, subkey) when there is one, else the entry recorded for
\* (variable, None) when there is one, else 2.
C14_GetDecimalsFallback ==
  IsGetDecimals =>
    LET specific == <<call.variable, call.subkey>>
        toplevel == <<call.variable, None>>
    IN  call.ret =
          IF specific \in DOMAIN scan.decimals_map THEN scan.decimals_map[specific]
          ELSE IF toplevel \in DOMAIN scan.decimals_map THEN scan.decimals_map[toplevel]
          ELSE 2

\* A call for a sub-key that is not recorded, answered by the top-level
\* entry of the variable, which is not 2.
C14_Witness ==
  /\ IsGetDecimals
  /\ call.subkey = "x"
  /\ <<call.variable, "x">> \notin DOMAIN scan.decimals_map
  /\ <<call.variable, None>> \in DOMAIN scan.decimals_map
  /\ call.ret = 0

C16_RecordedUnderDirectParent ==
  (Scanned /\ Line.entry /\ PlainNumber(Line.value) /\ InMappings(scan.text, scan.pos)) =>
    scan.written =
      IF Container(scan.text, scan.pos) = 0
      THEN <<Line.key, None>>
      ELSE <<scan.text[Container(scan.text, scan.pos)].key, Line.key>>

\* C16, amended: a numeric scalar at the top level is recorded under
\* (key, None), and one nested in mappings under (top_key, key), where
\* top_key is the key of the outermost mapping that contains it, at every
\* depth and after any indents and dedents.
C16_RecordedUnderOutermost ==
  (Scanned /\ Line.entry /\ PlainNumber(Line.value) /\ InMappings(scan.text, scan.pos)) =>
    /\ scan.written =
         IF Container(scan.text, scan.pos) = 0
         THEN <<Line.key, None>>
         ELSE <<scan.text[Outermost(scan.text, scan.pos)].key, Line.key>>
    /\ scan.written \in DOMAIN scan.decimals_map

\* A number two mappings deep, the inner mapping under another key than the
\* outer one.
C16_Witness ==
  /\ Scanned
  /\ Line.entry
  /\ PlainNumber(Line.value)
  /\ InMappings(scan.text, scan.pos)
  /\ Container(scan.text, scan.pos) # 0
  /\ Container(scan.text, Container(scan.text, scan.pos)) # 0
  /\ scan.text[Container(scan.text, scan.pos)].key = "b"
  /\ scan.written = <<"a", "x">>

(***************************************************************************)
(* Properties of loading.                                                  *)
(***************************************************************************)
Loaded ==
  load.pc \in {"returned", "raised"}

\* C17: when the configuration source does not exist, loading fails with a
\* not-found error before any Assumptions object is constructed, and none is
\* returned.
C17_NotFoundBeforeConstruction ==
  (Loaded /\ ~load.source.exists) =>
    /\ load.pc = "raised"
    /\ load.error = "FileNotFoundError"
    /\ ~load.constructed
    /\ assumptions = NoAssumptions

\* A load of a source that does not exist.
C17_Witness ==
  /\ Loaded
  /\ ~load.source.exists
  /\ load.error = "FileNotFoundError"

\* C18: when the configuration parses but lacks a field the engine reads,
\* load fails at load time, and returns no Assumptions on which a later
\* compute fails.
C18_MissingFieldFailsAtLoad ==
  ( /\ Loaded
    /\ load.source.exists
    /\ ~(RequiredFields \subseteq {load.source.document[i].key :
                                     i \in 1..Len(load.source.document)}) )
  => /\ load.pc = "raised"
     /\ ~(IsCompute /\ call.ret.raised)

(***************************************************************************)
(* Properties of the page.                                                 *)
(***************************************************************************)
\* The compute button was pressed in the last run of the session and
\* compute_total_kg_co2e returned.
Computed(s) ==
  /\ sessions[s].clicked
  /\ sessions[s].calls # <<>>
  /\ ~sessions[s].calls[1].raised

\* The keys of fmt_ctx in the last run of the session.
fmt_ctx_keys_of(s) ==
  DOMAIN compute_total_kg_co2e(sessions[s].assumptions,
                               role_of(sessions[s].widgets.selected)).ret.intermediate_values
    \cup flatten_assumptions(sessions[s].assumptions, Defaults.decimals_map)

\* C11: after the default configuration is loaded and the sidebar edited in
\* any way, every replacement field of details_text and of
\* even_more_details_text is a key of the breakdown merged with the flattened
\* assumptions, so a run that computes formats both texts without a KeyError.
C11_TemplateFieldsPresent ==
  \A s \in DOMAIN sessions :
    Computed(s) =>
      /\ details_text_fields \subseteq fmt_ctx_keys_of(s)
      /\ even_more_details_text_fields \subseteq fmt_ctx_keys_of(s)
      /\ sessions[s].error = ""
      /\ sessions[s].details = "formatted"

\* A run that computes after sliders were moved and input boxes typed in.
C11_Witness ==
  \E s \in DOMAIN sessions :
    /\ Computed(s)
    /\ sessions[s].details = "formatted"
    /\ sessions[s].widgets.sliders # DefaultWidgets.sliders
    /\ sessions[s].widgets.inputs # DefaultWidgets.inputs

\* The groups of sliders with a target for their sum.
Monitored ==
  {variable \in main_assumptions : metadata(variable).sum_should_be.set}

\* The sum of the positions of the sliders of a group.
RawSum(s, variable) ==
  RSum(sessions[s].widgets.sliders[variable],
       DOMAIN sessions[s].widgets.sliders[variable])

\* C19: for device_percent and the two resolution groups, when the sliders
\* of the group do not sum to 100 the run shows st.info (sum below) or
\* st.error (sum above), raises nothing, and a run with the compute button
\* pressed still calls compute_total_kg_co2e, which returns.
C19_SumSignal ==
  \A s \in DOMAIN sessions : \A variable \in Monitored :
    (RawSum(s, variable) # R(100)) =>
      /\ RLt(RawSum(s, variable), R(100)) => sessions[s].signals[variable] = "info"
      /\ RGt(RawSum(s, variable), R(100)) => sessions[s].signals[variable] = "error"
      /\ sessions[s].error = ""
      /\ sessions[s].clicked => Computed(s)

\* A run that computes with one group summing below 100 and one above.
C19_Witness ==
  \E s \in DOMAIN sessions :
    /\ Computed(s)
    /\ Monitored =
         {"device_percent", "fixed_network_resolution_percent",
          "mobile_network_resolution_percent"}
    /\ \E variable \in Monitored :
         /\ RLt(RawSum(s, variable), R(100))
         /\ sessions[s].signals[variable] = "info"
    /\ \E variable \in Monitored :
         /\ RGt(RawSum(s, variable), R(100))
         /\ sessions[s].signals[variable] = "error"

\* C20: a run calls compute_total_kg_co2e once when the compute button was
\* pressed and makes no call otherwise; the compute is followed by exactly
\* two calls of calculate_co2e_offsetting on the co2e_offsetting table of the
\* run, the first with the usage-only total, the second with the
\* with-production total, and no offsetting call comes without the compute.
C20_CallsOfARun ==
  \A s \in DOMAIN sessions :
    /\ ~sessions[s].clicked => sessions[s].calls = <<>>
    /\ sessions[s].clicked =>
         /\ Len(sessions[s].calls) = 3
         /\ sessions[s].calls[1].fn = "compute_total_kg_co2e"
         /\ \A i \in {2, 3} :
              /\ sessions[s].calls[i].fn = "calculate_co2e_offsetting"
              /\ sessions[s].calls[i].table = sessions[s].assumptions.co2e_offsetting
         /\ sessions[s].calls[2].total = sessions[s].calls[1].usage_only
         /\ sessions[s].calls[3].total = sessions[s].calls[1].with_production

\* A run that computes two different positive totals, then one without the
\* button.
C20_Witness ==
  \E s \in DOMAIN sessions :
    /\ sessions[s].clicked
    /\ Len(sessions[s].calls) = 3
    /\ RGt(sessions[s].calls[2].total, Zero)
    /\ RGt(sessions[s].calls[3].total, sessions[s].calls[2].total)

(***************************************************************************)
(* Properties of number_input_localized.                                   *)
(***************************************************************************)
IsNumberInput ==
  call.fn = "number_input_localized"

\* C21: in French, with min_value <= max_value given, the value returned is
\* inside [min_value, max_value] whatever the text typed, a text that does
\* not parse giving the default value, clamped and rounded.
C21_ReturnWithinBounds ==
  ( /\ IsNumberInput
    /\ call.min_value.set
    /\ call.max_value.set
    /\ RLe(call.min_value.value, call.max_value.value) )
  => /\ RLe(call.min_value.value, call.ret)
     /\ RLe(call.ret, call.max_value.value)
     /\ (call.parsed = Garbage =>
           call.ret = round(RMin(call.max_value.value,
                                 RMax(call.min_value.value, call.value)),
                            call.decimals))

(***************************************************************************)
(* Properties of interleaved sessions.                                     *)
(***************************************************************************)
\* The totals compute_total_kg_co2e returns on the Assumptions of a session.
TotalsAlone(session) ==
  compute_total_kg_co2e(session.assumptions, role_of(session.widgets.selected)).ret

\* What a run of session s left is what the session leaves when it runs
\* alone with its widgets, and its compute returned the totals of its own
\* Assumptions.
RanAlone(session) ==
  /\ session = main(Defaults, session.widgets, session.clicked)
  /\ session.clicked =>
       /\ session.calls[1].usage_only = TotalsAlone(session).usage_only
       /\ session.calls[1].with_production = TotalsAlone(session).with_production

ClampedFixedFraction(d) ==
  RMin(One, RMax(Zero, RDiv(assumptions.fixed_network_percent[d], R(100))))

\* Sum over the devices of usage_fraction[d] * clamp(fixed percent / 100).
FixedShareReference ==
  RSum([d \in Devices |->
          RMul(call.device_usage_share_fraction[d], ClampedFixedFraction(d))],
       Devices)

ShareOf(net) ==
  RDiv(Breakdown["network_share_" \o net], R(100))

GBPerHourOf(net) ==
  RSum([r \in Resolutions |->
          RMul((IF net = "fixed" THEN call.fixed_resolution_share
                ELSE call.mobile_resolution_share)[r],
               assumptions.video_bitrate_GB_per_hour[r])],
       Resolutions)

DeviceEnergyReference ==
  RMul(assumptions.co2e_per_kWh,
       RSum([d \in Devices |->
               RMul(call.device_usage_share_fraction[d],
                    RDiv(assumptions.device_watts[d], R(1000)))],
            Devices))

NetworkReference ==
  RMul(assumptions.co2e_per_kWh,
       RSum([net \in Networks |->
               RMul(ShareOf(net),
                    RAdd(RMul(assumptions.network_kwh_per_gb[net], GBPerHourOf(net)),
                         assumptions.network_kwh_per_user_per_hour[net]))],
            Networks))

DatacenterReference ==
  RAdd(RMul(assumptions.datacenter_kg_co2e["per_GB"],
            RAdd(RMul(ShareOf("fixed"), GBPerHourOf("fixed")),
                 RMul(ShareOf("mobile"), GBPerHourOf("mobile")))),
       assumptions.datacenter_kg_co2e["per_hour"])

\* C24: kg_per_video_hour_usage_only is the device energy (co2e_per_kWh
\* times the usage-weighted watts / 1000), plus the network energy
\* (co2e_per_kWh times, per network, its share times a * GB/h + b, the
\* overhead b weighted by the share too), plus the datacenter term (per_GB
\* times the share-weighted GB/h, plus per_hour in full).
C24_UsageOnlyPerHour ==
  Returned =>
    Breakdown["kg_per_video_hour_usage_only"] =
      RAdd(RAdd(DeviceEnergyReference, NetworkReference), DatacenterReference)

\* A call where both networks carry traffic of several resolutions and
\* several devices are used.
C24_Witness ==
  /\ Returned
  /\ RGt(ShareOf("fixed"), Zero) /\ RGt(ShareOf("mobile"), Zero)
  /\ RGt(GBPerHourOf("fixed"), Zero) /\ RGt(GBPerHourOf("mobile"), Zero)
  /\ GBPerHourOf("fixed") # GBPerHourOf("mobile")
  /\ Cardinality({d \in Devices : RGt(call.device_usage_share_fraction[d], Zero)}) >= 2
  /\ RGt(Breakdown["kg_per_video_hour_usage_only"], DatacenterReference)

(***************************************************************************)
(* Properties of the two passes of the loader.                             *)
(***************************************************************************)
\* The document nests a mapping under a key of a mapping (depth two), and
\* everything it writes under a key is a number.
HasNestedMapping(document) ==
  \E i \in 1..Len(document) : \E j \in 1..Len(document[i].items) :
    document[i].items[j].value.kind = "mapping"

AllLeavesNumbers(document) ==
  \A i \in 1..Len(document) :
    /\ ~document[i].mapping => document[i].value.kind = "number"
    /\ \A j \in 1..Len(document[i].items) :
         \/ document[i].items[j].value.kind = "number"
         \/ /\ document[i].items[j].value.kind = "mapping"
            /\ \A k \in 1..Len(document[i].items[j].value.items) :
                 document[i].items[j].value.items[k].value.kind = "number"

\* C25: a configuration whose leaves are all numbers and that nests a mapping
\* inside a mapping is loaded without error, the leaves of the nested
\* mapping converted to floats like the others.
C25_NestedMappingLoaded ==
  ( /\ Loaded
    /\ load.source.exists
    /\ HasNestedMapping(load.source.document)
    /\ AllLeavesNumbers(load.source.document) )
  => /\ load.pc = "returned"
     /\ load.error = ""

\* The scalar leaves of the loaded values, as (key, subkey) pairs.
ScalarLeaves(attributes) ==
  UNION { IF key \in MappingFields
          THEN {<<key, subkey>> : subkey \in DOMAIN attributes[key]}
          ELSE {<<key, None>>} : key \in DOMAIN attributes }

\* C26: after a load that succeeds the two passes agree on key sets: every
\* scalar leaf of the loaded values has an entry of the precision map under
\* its (key, subkey) pair, and every entry names a scalar leaf.
C26_PassesAgreeOnKeys ==
  (Loaded /\ load.pc = "returned") =>
    DOMAIN load.decimals_map = ScalarLeaves(assumptions)

(***************************************************************************)
(* Properties of a device_percent that is zero everywhere.                 *)
(***************************************************************************)
\* The footprint of one video hour carried by the mobile network alone.
MobileNetworkPerHour ==
  RMul(assumptions.co2e_per_kWh,
       RAdd(RMul(assumptions.network_kwh_per_gb["mobile"], GBPerHourOf("mobile")),
            assumptions.network_kwh_per_user_per_hour["mobile"]))

MobileDatacenterPerHour ==
  RAdd(RMul(assumptions.datacenter_kg_co2e["per_GB"], GBPerHourOf("mobile")),
       assumptions.datacenter_kg_co2e["per_hour"])

\* C27: with every device_percent entry 0 all viewing goes to the mobile
\* network: network_share_fixed is 0 and network_share_mobile 100, the two
\* device totals are 0, and the network and datacenter totals are those of
\* viewing on the mobile network only, positive when hours are.
C27_NoDeviceAllMobile ==
  (Returned /\ AllZero(assumptions.device_percent)) =>
    /\ Breakdown["network_share_fixed"] = Zero
    /\ Breakdown["network_share_mobile"] = R(100)
    /\ Breakdown["production_co2_total"] = Zero
    /\ Breakdown["device_energy_co2_total"] = Zero
    /\ Breakdown["network_co2_total"] =
         RMul(MobileNetworkPerHour, hours_per_year(assumptions))
    /\ Breakdown["datacenter_co2_total"] =
         RMul(MobileDatacenterPerHour, hours_per_year(assumptions))
    /\ RGt(assumptions.hours_input, Zero) =>
         /\ RGt(Breakdown["network_co2_total"], Zero)
         /\ RGt(Breakdown["datacenter_co2_total"], Zero)

\* A call with no device in use, hours of viewing and mobile traffic.
C27_Witness ==
  /\ Returned
  /\ AllZero(assumptions.device_percent)
  /\ RGt(assumptions.hours_input, Zero)
  /\ RGt(GBPerHourOf("mobile"), Zero)
  /\ Breakdown["network_share_mobile"] = R(100)
  /\ RGt(Breakdown["network_co2_total"], Zero)

(***************************************************************************)
(* Properties of the groups the sidebar stores.                            *)
(***************************************************************************)
\* The group the last run of the session stored, and its sum.
Stored(s, variable) ==
  sessions[s].assumptions[variable]

StoredSum(s, variable) ==
  RSum(Stored(s, variable), DOMAIN Stored(s, variable))

\* C28: when the sliders of a monitored group, each between 0 and 100, sum
\* to less than 100, the group stored sums to 100, differs from the sliders
\* in its variable_to_alter entry only, and that entry is within [0, 100];
\* so no monitored group is computed on with a sum below 100, and never
\* with all its entries 0.
C28_GroupCompleted ==
  \A s \in DOMAIN sessions : \A variable \in Monitored :
    /\ RLt(RawSum(s, variable), R(100)) =>
         /\ StoredSum(s, variable) = R(100)
         /\ \A k \in DOMAIN Stored(s, variable) \ {metadata(variable).variable_to_alter} :
              Stored(s, variable)[k] = sessions[s].widgets.sliders[variable][k]
         /\ RLe(Zero, Stored(s, variable)[metadata(variable).variable_to_alter])
         /\ RLe(Stored(s, variable)[metadata(variable).variable_to_alter], R(100))
    /\ sessions[s].clicked =>
         /\ RLe(R(100), StoredSum(s, variable))
         /\ ~AllZero(Stored(s, variable))

\* A run that computes with the sliders of one group all at 0 and those of
\* another summing to 50.
C28_Witness ==
  \E s \in DOMAIN sessions :
    /\ Computed(s)
    /\ \E variable \in Monitored :
         /\ AllZero(sessions[s].widgets.sliders[variable])
         /\ Stored(s, variable)[metadata(variable).variable_to_alter] = R(100)
    /\ \E variable \in Monitored :
         /\ RawSum(s, variable) = R(50)
         /\ Stored(s, variable) # sessions[s].widgets.sliders[variable]
         /\ StoredSum(s, variable) = R(100)

(***************************************************************************)
(* Properties of the offsetting table of the page.                         *)
(***************************************************************************)
\* The count displayed for a total and a saving: total / saving with two
\* decimals.
DisplayedCount(total, saving) ==
  round(RDiv(total, saving), 2)

\* C29: the offsetting table shown after a compute has one row per action
\* of co2e_offsetting, in the order of the table; an action whose saving is
\* 0 or negative keeps its row, with the count 0 in both columns, and the
\* other rows show total / saving for the two totals.
C29_OneRowPerAction ==
  \A s \in DOMAIN sessions :
    Computed(s) =>
      /\ [i \in 1..Len(sessions[s].rows) |-> sessions[s].rows[i].action] =
           actions_of(sessions[s].assumptions.co2e_offsetting)
      /\ Len(sessions[s].rows) = Cardinality(DOMAIN sessions[s].assumptions.co2e_offsetting)
      /\ \A i \in 1..Len(sessions[s].rows) :
           LET saving == sessions[s].assumptions.co2e_offsetting[sessions[s].rows[i].action]
           IN  IF RLe(saving, Zero)
               THEN /\ sessions[s].rows[i].usage = Zero
                    /\ sessions[s].rows[i].with_production = Zero
               ELSE /\ sessions[s].rows[i].usage =
                         DisplayedCount(sessions[s].calls[1].usage_only, saving)
                    /\ sessions[s].rows[i].with_production =
                         DisplayedCount(sessions[s].calls[1].with_production, saving)

\* A table shown with a positive count on one row and, for an action whose
\* saving is 0, a row of zeros.
C29_Witness ==
  \E s \in DOMAIN sessions :
    /\ Computed(s)
    /\ \E i \in 1..Len(sessions[s].rows) :
         /\ sessions[s].assumptions.co2e_offsetting[sessions[s].rows[i].action] = Zero
         /\ sessions[s].rows[i].usage = Zero
    /\ \E i \in 1..Len(sessions[s].rows) :
         /\ RGt(sessions[s].rows[i].usage, Zero)
         /\ RGt(sessions[s].rows[i].with_production, sessions[s].rows[i].usage)

(***************************************************************************)
(* Properties of the stack of the textual scan.                            *)
(***************************************************************************)
\* The indents of a stack increase strictly from bottom to top.
StrictlyIncreasing(stack) ==
  \A i \in 1..(Len(stack) - 1) : stack[i].indent < stack[i + 1].indent

IsPrefix(short, long) ==
  Len(short) <= Len(long) /\ short = SubSeq(long, 1, Len(short))

\* What the iteration over a line may do to the stack: a line without
\* "key:" leaves it alone; a "key:" line of indent i leaves below i only
\* what was there, and on top of it the line itself when its value is empty.
StackAfter(before, after, line) ==
  /\ StrictlyIncreasing(after)
  /\ ~line.entry => after = before
  /\ (line.entry /\ ~IsMappingStart(line)) =>
       /\ IsPrefix(after, before)
       /\ \A i \in 1..Len(before) : i <= Len(after) <=> before[i].indent < line.indent
  /\ IsMappingStart(line) =>
       /\ after[Len(after)] = [indent |-> line.indent, key |-> line.key]
       /\ IsPrefix(SubSeq(after, 1, Len(after) - 1), before)
       /\ \A i \in 1..Len(before) : i < Len(after) <=> before[i].indent < line.indent

\* C30: after the scan has processed any line the indents of its stack are
\* strictly increasing from bottom to top; only a line with an empty value
\* pushes an entry, and a "key:" line of indent i has every entry of indent
\* >= i popped before it records or pushes anything.
C30_StackDiscipline ==
  [][ (scan.pos >= 0 /\ scan'.pos = scan.pos + 1) =>
        StackAfter(scan.stack, scan'.stack, scan.text[scan'.pos]) ]_vars

\* A third line that starts a mapping at the indent of the second: the
\* second is popped and the third pushed above the first.
C30_Witness ==
  /\ scan.pos = 3
  /\ IsMappingStart(scan.text[1]) /\ scan.text[1].indent = 0
  /\ IsMappingStart(scan.text[2]) /\ scan.text[2].indent = 2
  /\ IsMappingStart(scan.text[3]) /\ scan.text[3].indent = 2
  /\ Len(scan.stack) = 2
  /\ StrictlyIncreasing(scan.stack)
  /\ scan.stack[2].key = scan.text[3].key

====
